---- MODULE Spec2Model ----
(***************************************************************************)
(* A model of salt/states/git.py: the git.latest convergence state.        *)
(*                                                                         *)
(* Strings are sequences of chunks (TLA+ strings).  Revisions, SHA1s and   *)
(* branch/tag names are written one character per chunk, so that           *)
(* str.startswith, str.lower, len and the hex-digit test are computed as   *)
(* the code computes them.  Python's None is the empty sequence.  A        *)
(* comment is the sequence of the phrases the code appends.  The phrases   *)
(* of a dry run are written out in full, since the code goes on to take    *)
(* them apart; of the names the code formats into another phrase, those a  *)
(* property reads are kept.                                                *)
(***************************************************************************)
EXTENDS Integers, Sequences, FiniteSets, TLC

VARIABLES
    args,        \* the declared desired state (the arguments of git.latest)
    remoteRepo,  \* the remote repository: what git ls-remote advertises
    repo,        \* the target path: directory / local repository
    last,        \* the record of the last invocation of latest
    faults,      \* the operations the environment may make fail
    runs,        \* number of invocations so far
    envs,        \* number of environment steps so far
    config       \* the git configuration: key -> list of values

vars == <<args, remoteRepo, repo, last, faults, runs, envs, config>>

(***************************************************************************)
(* Bounds                                                                  *)
(***************************************************************************)
NCommits == 3
MaxRuns == 2
MaxEnv == 2

(***************************************************************************)
(* Strings                                                                 *)
(***************************************************************************)
None == <<>>
FalseV == <<"<False>">>          \* Python's False where a string may stand
HEAD == <<"H", "E", "A", "D">>
MaxShaLen == 40
ShortShaLen == 7

HexLower == {"0", "1", "2", "3", "4", "5", "6", "7", "8", "9",
             "a", "b", "c", "d", "e", "f"}
HexUpper == {"A", "B", "C", "D", "E", "F"}
hexdigits == HexLower \cup HexUpper

LowerChar(ch) ==
    CASE ch = "A" -> "a" [] ch = "B" -> "b" [] ch = "C" -> "c"
      [] ch = "D" -> "d" [] ch = "E" -> "e" [] ch = "F" -> "f"
      [] ch = "H" -> "h" [] OTHER -> ch

lower(s) == [i \in DOMAIN s |-> LowerChar(s[i])]

startswith(s, p) == Len(p) <= Len(s) /\ SubSeq(s, 1, Len(p)) = p

Truthy(s) == s # None /\ s # FalseV

\* the chunks of a string run together
RECURSIVE Text(_)
Text(s) == IF s = <<>> THEN "" ELSE s[1] \o Text(Tail(s))

\* what iterating over a str yields: its characters
Characters(s) == LET t == Text(s) IN [i \in 1..Len(t) |-> SubSeq(t, i, i)]

\* a value as str.format writes it
Format(v) == IF v = None THEN "None" ELSE IF v = FalseV THEN "False" ELSE Text(v)

(***************************************************************************)
(* Commits: a fixed history.  Commit c has parent c \div 2 (0: none), so   *)
(* 2 and 3 are diverging children of 1.                                    *)
(***************************************************************************)
Commits == 1..NCommits
Parent(c) == c \div 2

RECURSIVE IsAncestor(_, _)
IsAncestor(a, b) ==
    IF b = 0 \/ a = 0 THEN FALSE
    ELSE IF a = b THEN TRUE
    ELSE IsAncestor(a, Parent(b))

Reach(c) == {x \in 1..c : IsAncestor(x, c)}

ShaLetters == <<"a", "b", "c", "d", "e", "f">>
ShaDigits == <<"0", "1">>
Sha(c) == IF c = 0 THEN None
          ELSE <<ShaLetters[(c \div 2) + 1], ShaDigits[(c % 2) + 1]>>
TagObjSha(c) == <<"9", ShaDigits[(c % 2) + 1], ShaLetters[(c \div 2) + 1]>>

(***************************************************************************)
(* Names                                                                   *)
(***************************************************************************)
BrM == <<"m">>
BrW == <<"w">>
TagT == <<"t">>
Branches == {BrM, BrW}
Tags == {TagT}
DefaultBranch == BrM
Origin == <<"origin">>
Upstream2 == <<"up">>
RemoteNames == {Origin, Upstream2}
Slash == <<"/">>

UrlX == [scheme |-> "https", cred |-> None, loc |-> "x"]
UrlY == [scheme |-> "https", cred |-> None, loc |-> "y"]
NoUrl == [scheme |-> "", cred |-> None, loc |-> ""]

\* the URL as the string it is written as
UrlText(url) ==
    <<url.scheme, "://">>
        \o (IF url.cred = None THEN <<>> ELSE url.cred \o <<"@">>)
        \o <<url.loc>>
Target == <<"/", "srv/repo">>

(***************************************************************************)
(* Pure helpers of the module                                              *)
(***************************************************************************)
_revs_equal(rev1, rev2, rev_type) ==
    IF (rev1 = None /\ rev2 # None) \/ (rev2 = None /\ rev1 # None) THEN FALSE
    ELSE IF rev1 = None /\ rev2 = None THEN TRUE
    ELSE IF rev_type = "sha1" THEN startswith(rev1, rev2)
    ELSE rev1 = rev2

_short_sha(sha1) ==
    IF sha1 = None THEN None
    ELSE SubSeq(sha1, 1, IF Len(sha1) < ShortShaLen THEN Len(sha1) ELSE ShortShaLen)

RECURSIVE JoinSep(_)
JoinSep(xs) ==
    IF Len(xs) = 0 THEN <<>>
    ELSE IF Len(xs) = 1 THEN <<xs[1]>>
    ELSE <<xs[1], ". ">> \o JoinSep(Tail(xs))

_format_comments(comments) ==
    JoinSep(comments) \o (IF Len(comments) > 1 THEN <<".">> ELSE <<>>)

_uptodate(ret, target, comments) ==
    [ret EXCEPT !.comment =
        (<<"Repository ">> \o target \o <<" is up-to-date">>)
        \o (IF comments # <<>>
            THEN <<"\n\nChanges made: ">> \o _format_comments(comments)
            ELSE <<>>)]

_neutral_test(ret, comment) ==
    [ret EXCEPT !.result = "None", !.comment = comment]

\* _fail that reports a failure with no changes
_failNoChanges(ret, msg, comments) ==
    [ret EXCEPT !.result = "False", !.changes = <<>>,
                !.comment = msg \o (IF comments # <<>>
                                    THEN <<"\n\nChanges already made: ">>
                                         \o _format_comments(comments)
                                    ELSE <<>>)]

_fail(ret, msg, comments) ==
    [ret EXCEPT !.result = "False",
                !.comment = msg \o (IF comments # <<>>
                                    THEN <<"\n\nChanges already made: ">>
                                         \o _format_comments(comments)
                                    ELSE <<>>)]

_not_fast_forward(ret, pre, post, branch, local_branch, comments) ==
    _fail(ret,
          <<"Repository would be updated from ">> \o _short_sha(pre)
            \o <<" to ">> \o _short_sha(post)
            \o (IF branch # None /\ branch # local_branch
                THEN <<" (after checking out local branch '">> \o branch \o <<"')">>
                ELSE <<>>)
            \o <<", but this is not a fast-forward merge. Set 'force_reset' to True to force this update.">>,
          comments)

NewRet(name) == [name |-> name, result |-> "True", comment |-> <<>>,
                 changes |-> <<>>]

\* ret['changes'][key] = value
SetChange(ret, key, value) ==
    [ret EXCEPT !.changes = (key :> value) @@ ret.changes]

HasChange(ret, key) == key \in DOMAIN ret.changes

(***************************************************************************)
(* The remote repository and the target path.                              *)
(*                                                                         *)
(* remoteRepo = [m: tip of refs/heads/m (0: absent), t: commit of tag t    *)
(*               (0: absent), annot: whether t is an annotated tag]        *)
(* The remote's HEAD is its default branch m.                              *)
(*                                                                         *)
(* repo.kind: "absent" (no such path), "emptydir", "dir" (a non-empty      *)
(* directory that is no repository), "repo" (work tree with .git), "bare". *)
(***************************************************************************)
NoHeads == [b \in Branches |-> 0]
NoTags == [t \in Tags |-> 0]
NoRemotes == [r \in RemoteNames |-> NoUrl]
NoTrack == [r \in RemoteNames |-> [b \in Branches |-> 0]]
NoUpstream == [b \in Branches |-> None]

Blank(kind) ==
    [kind |-> kind, objs |-> {}, heads |-> NoHeads, cur |-> DefaultBranch,
     tags |-> NoTags, remotes |-> NoRemotes, rtrack |-> NoTrack,
     rhead |-> [r \in RemoteNames |-> FALSE], upstream |-> NoUpstream,
     dirty |-> FALSE]

\* git ls-remote: ref name -> SHA1
remote_refs(rr) ==
    (IF rr.m # 0
     THEN (HEAD :> Sha(rr.m)) @@ ((<<"refs/heads/">> \o BrM) :> Sha(rr.m))
     ELSE <<>>)
    @@
    (IF rr.t # 0
     THEN IF rr.annot
          THEN ((<<"refs/tags/">> \o TagT) :> TagObjSha(rr.t))
               @@ ((<<"refs/tags/">> \o TagT \o <<"^{}">>) :> Sha(rr.t))
          ELSE ((<<"refs/tags/">> \o TagT) :> Sha(rr.t))
     ELSE <<>>)

\* commits the remote can send
RemoteObjs(rr) == Reach(rr.m) \cup Reach(rr.t)

(***************************************************************************)
(* Read-only git queries on the local repository                           *)
(***************************************************************************)
HeadCommit(g) == g.heads[g.cur]

\* git.revision: SHA1 of HEAD, None when HEAD is unborn
revision(g) == Sha(HeadCommit(g))

\* git.current_branch: None when HEAD is unborn
current_branch(g) == IF HeadCommit(g) = 0 THEN None ELSE g.cur

list_branches(g) == {b \in Branches : g.heads[b] # 0}
list_tags(g) == {t \in Tags : g.tags[t] # 0}
remotes(g) == {r \in RemoteNames : g.remotes[r] # NoUrl}

\* the commit a revision expression names in g, 0 when it names none
\* (a SHA1 prefix must select exactly one local object)
Resolve(g, s) ==
    IF s \in Tags THEN g.tags[s]
    ELSE IF s \in Branches THEN g.heads[s]
    ELSE IF \E r \in RemoteNames, b \in Branches : s = r \o Slash \o b
    THEN LET r == CHOOSE r \in RemoteNames : \E b \in Branches : s = r \o Slash \o b
             b == CHOOSE b \in Branches : s = r \o Slash \o b
         IN g.rtrack[r][b]
    ELSE IF \E r \in RemoteNames : s = r \o Slash \o HEAD
    THEN LET r == CHOOSE r \in RemoteNames : s = r \o Slash \o HEAD
         IN IF g.rhead[r] THEN g.rtrack[r][DefaultBranch] ELSE 0
    ELSE IF s # None /\ \A i \in DOMAIN s : s[i] \in HexLower
    THEN LET cand == {c \in g.objs : startswith(Sha(c), s)}
         IN IF Cardinality(cand) = 1 THEN CHOOSE c \in cand : TRUE ELSE 0
    ELSE 0

\* git.rev_parse(ref): the SHA1, or failure (None)
rev_parse(g, s) == Sha(Resolve(g, s))

\* git.rev_parse(<branch>@{upstream}, --abbrev-ref): failure is None
rev_parse_upstream(g, b) == IF b \in Branches THEN g.upstream[b] ELSE None

\* git.merge_base(refs=[base, rev], is_ancestor=True)
merge_base(g, base, rev) ==
    Resolve(g, base) # 0 /\ Resolve(g, rev) # 0
    /\ IsAncestor(Resolve(g, base), Resolve(g, rev))

status(g) == g.dirty

\* git.symbolic_ref HEAD --quiet: HEAD always points to a branch here
symbolic_ref(g) == TRUE

(***************************************************************************)
(* Mutating git operations.  Each yields [ok, g]: whether the command      *)
(* succeeded and the repository it leaves.                                 *)
(***************************************************************************)
IsTrackingRef(s) == \E r \in RemoteNames, b \in Branches : s = r \o Slash \o b
IsRemoteHead(s) == \E r \in RemoteNames : s = r \o Slash \o HEAD

\* git clone [--bare|--mirror] [--origin remote] url target
git_clone(g, url, bare, remote, rr) ==
    [ok |-> g.kind \in {"absent", "emptydir"},
     g |-> [kind |-> IF bare THEN "bare" ELSE "repo",
            objs |-> RemoteObjs(rr),
            heads |-> [NoHeads EXCEPT ![DefaultBranch] = rr.m],
            cur |-> DefaultBranch,
            tags |-> [NoTags EXCEPT ![TagT] = rr.t],
            remotes |-> [NoRemotes EXCEPT ![remote] = url],
            rtrack |-> IF bare THEN NoTrack
                       ELSE [NoTrack EXCEPT ![remote][DefaultBranch] = rr.m],
            rhead |-> [r \in RemoteNames |-> ~bare /\ r = remote /\ rr.m # 0],
            upstream |-> IF bare \/ rr.m = 0 THEN NoUpstream
                         ELSE [NoUpstream EXCEPT ![DefaultBranch] =
                                  remote \o Slash \o DefaultBranch],
            dirty |-> FALSE]]

\* git fetch [--force] remote [refspecs].  With fetch_tags the refspecs are
\* refs/heads/*:refs/remotes/<remote>/* (a non-fast-forward update of the
\* remote-tracking branch is rejected unless forced) and +refs/tags/*:refs/tags/*
\* (tags are overwritten).  Without refspecs the remote's configured, forcing,
\* refspec is used and only tags that are new locally follow.
FetchRejected(g, remote, force, fetch_tags, rr) ==
    /\ fetch_tags /\ ~force /\ rr.m # 0
    /\ g.rtrack[remote][DefaultBranch] # 0
    /\ ~IsAncestor(g.rtrack[remote][DefaultBranch], rr.m)

FetchObjs(g, fetch_tags, rr) ==
    g.objs \cup Reach(rr.m) \cup (IF fetch_tags THEN Reach(rr.t) ELSE {})

FetchTag(g, fetch_tags, rr) ==
    IF rr.t = 0 THEN g.tags[TagT]
    ELSE IF fetch_tags THEN rr.t
    ELSE IF g.tags[TagT] = 0 /\ rr.t \in FetchObjs(g, fetch_tags, rr) THEN rr.t
    ELSE g.tags[TagT]

FetchTrack(g, remote, force, fetch_tags, rr) ==
    IF rr.m = 0 \/ FetchRejected(g, remote, force, fetch_tags, rr)
    THEN g.rtrack[remote][DefaultBranch]
    ELSE rr.m

\* the lines git fetch prints, one record per updated ref
FetchOutput(g, remote, force, fetch_tags, rr) ==
    LET old == g.rtrack[remote][DefaultBranch]
        new == FetchTrack(g, remote, force, fetch_tags, rr)
        oldt == g.tags[TagT]
        newt == FetchTag(g, fetch_tags, rr)
    IN (IF new = old THEN <<>>
        ELSE IF old = 0
        THEN <<[kind |-> "new branch", ref |-> BrM, old |-> None, new |-> None]>>
        ELSE IF IsAncestor(old, new)
        THEN <<[kind |-> "update", ref |-> BrM, old |-> _short_sha(Sha(old)),
                new |-> _short_sha(Sha(new))]>>
        ELSE <<[kind |-> "forced update", ref |-> BrM, old |-> _short_sha(Sha(old)),
                new |-> _short_sha(Sha(new))]>>)
       \o
       (IF newt = oldt THEN <<>>
        ELSE IF oldt = 0
        THEN <<[kind |-> "new tag", ref |-> TagT, old |-> None, new |-> None]>>
        ELSE <<[kind |-> "tag update", ref |-> TagT, old |-> None, new |-> None]>>)

git_fetch(g, remote, force, fetch_tags, rr) ==
    IF g.remotes[remote] = NoUrl THEN [ok |-> FALSE, g |-> g, out |-> <<>>]
    ELSE
    [ok |-> ~FetchRejected(g, remote, force, fetch_tags, rr),
     out |-> FetchOutput(g, remote, force, fetch_tags, rr),
     g |-> [g EXCEPT !.objs = FetchObjs(g, fetch_tags, rr),
                     !.tags[TagT] = FetchTag(g, fetch_tags, rr),
                     !.rtrack[remote][DefaultBranch] =
                         FetchTrack(g, remote, force, fetch_tags, rr)]]

\* git checkout [-f] -b <branch> <start point>
git_checkout_new(g, branch, start, force) ==
    LET c == Resolve(g, start) IN
    IF c = 0 \/ branch \notin Branches \/ g.heads[branch] # 0
    THEN [ok |-> FALSE, g |-> g]
    ELSE [ok |-> TRUE,
          g |-> [g EXCEPT !.heads[branch] = c,
                          !.cur = branch,
                          !.upstream[branch] =
                              IF IsTrackingRef(start) THEN start
                              ELSE IF IsRemoteHead(start)
                              THEN SubSeq(start, 1, Len(start) - Len(HEAD))
                                   \o DefaultBranch
                              ELSE None,
                          !.dirty = IF force THEN FALSE ELSE g.dirty]]

\* git checkout [-f] <branch>
git_checkout(g, branch, force) ==
    IF branch \notin Branches \/ g.heads[branch] = 0
    THEN [ok |-> FALSE, g |-> g]
    ELSE [ok |-> TRUE,
          g |-> [g EXCEPT !.cur = branch,
                          !.dirty = IF force THEN FALSE ELSE g.dirty]]

\* git reset --hard <rev>
git_reset(g, rev) ==
    LET c == Resolve(g, rev) IN
    IF c = 0 THEN [ok |-> FALSE, g |-> g]
    ELSE [ok |-> TRUE, g |-> [g EXCEPT !.heads[g.cur] = c, !.dirty = FALSE]]

\* git merge --ff-only <rev>
git_merge(g, rev) ==
    LET c == Resolve(g, rev)
        h == HeadCommit(g)
    IN IF c = 0 THEN [ok |-> FALSE, g |-> g]
       ELSE IF h = 0 \/ IsAncestor(h, c)
       THEN [ok |-> TRUE, g |-> [g EXCEPT !.heads[g.cur] = c]]
       ELSE IF IsAncestor(c, h) THEN [ok |-> TRUE, g |-> g]
       ELSE [ok |-> FALSE, g |-> g]

\* git branch --set-upstream-to <upstream> [<name>]   (name None: current branch)
git_branch_set_upstream(g, name, up) ==
    LET b == IF name = None THEN g.cur ELSE name IN
    IF b \notin Branches \/ g.heads[b] = 0 \/ Resolve(g, up) = 0
    THEN [ok |-> FALSE, g |-> g]
    ELSE [ok |-> TRUE, g |-> [g EXCEPT !.upstream[b] = up]]

\* git branch --unset-upstream [<name>]
git_branch_unset_upstream(g, name) ==
    LET b == IF name = None THEN g.cur ELSE name IN
    IF b \notin Branches \/ g.heads[b] = 0 \/ g.upstream[b] = None
    THEN [ok |-> FALSE, g |-> g]
    ELSE [ok |-> TRUE, g |-> [g EXCEPT !.upstream[b] = None]]

\* git.remote_set: (re)define the remote with the given fetch URL
git_remote_set(g, remote, url) ==
    [ok |-> TRUE, g |-> [g EXCEPT !.remotes[remote] = url]]

\* salt.utils.url
add_http_basic_auth(url, user, pass) ==
    IF user = None THEN url ELSE [url EXCEPT !.cred = user \o <<":">> \o pass]

redact_http_basic_auth(url) ==
    IF url.cred = None THEN url ELSE [url EXCEPT !.cred = <<"<redacted>">>]

\* identity files: an absolute path, a relative path, a file of the master's
\* file server, a salt:// URL the file server does not have
IdAbs == <<"/", "root/.ssh/id">>
IdRel == <<"keys/id">>
IdSalt == <<"salt://", "keys/id">>
IdSaltGone == <<"salt://", "keys/gone">>

\* cp.cache_file: the minion's copy of the file, None for the IOError
cache_file(path) ==
    IF path = IdSalt THEN <<"/", "var/cache/salt/minion/files/base/keys/id">>
    ELSE None

\* the shell commands true and false given as onlyif / unless
CmdTrue == <<"true">>
CmdFalse == <<"false">>

\* cmd.retcode
retcode(cmd) == IF cmd = CmdTrue THEN 0 ELSE 1

\* _parse_fetch: the fetch output as a dict.  The pattern begins with a greedy
\* '.*', so of the old SHA1 of an updated branch only the last digit is kept
RECURSIVE _parse_fetch(_)
_parse_fetch(output) ==
    IF output = <<>> THEN <<>>
    ELSE LET line == output[Len(output)]
             ret == _parse_fetch(SubSeq(output, 1, Len(output) - 1))
             prev(k) == IF k \in DOMAIN ret THEN ret[k] ELSE <<>>
         IN CASE line.kind = "new tag" ->
                   (<<"new tags">> :> Append(prev(<<"new tags">>), line.ref)) @@ ret
              [] line.kind = "new branch" ->
                   (<<"new branches">> :> Append(prev(<<"new branches">>), line.ref)) @@ ret
              [] line.kind = "update" ->
                   (<<"updated_branches">> :>
                       ((line.ref :> [old |-> SubSeq(line.old, Len(line.old),
                                                     Len(line.old)),
                                      new |-> line.new])
                        @@ prev(<<"updated_branches">>)))
                   @@ ret
              [] line.kind = "tag update" ->
                   (<<"updated tags">> :> Append(prev(<<"updated tags">>), line.ref)) @@ ret
              [] OTHER -> ret

(***************************************************************************)
(* latest.  A run is a context c threaded through the stages of the        *)
(* function: c.g is the repository, c.ret the result record, c.comments    *)
(* the list of changes made, c.ops the mutating operations invoked so far, *)
(* c.calls the collaborators called that change nothing, c.trace both in   *)
(* the order of the calls,                                                 *)
(* c.done that latest has returned, c.failed that an external command      *)
(* failed.  c.f names an operation that the environment makes fail         *)
(* ("none": no fault).                                                     *)
(* The other fields are the local variables of latest.                     *)
(***************************************************************************)
Unbound == <<"<unbound>">>

Return(c, ret) == [c EXCEPT !.done = TRUE, !.ret = ret]

\* an exception of latest's own code reaching "except Exception"
\* (lines 1183-1192, 1418-1427)
Crash(c, msg) ==
    [c EXCEPT !.done = TRUE, !.ret = _fail(c.ret, msg, c.comments)]

\* a failing command's exception reaching "except Exception"
Raise(c, msg) == [Crash(c, msg) EXCEPT !.failed = TRUE]

Invoke(c, op) ==
    [c EXCEPT !.ops = Append(c.ops, op), !.trace = Append(c.trace, op)]

\* a collaborator that changes nothing in the repository is called
Call(c, op) ==
    [c EXCEPT !.calls = Append(c.calls, op), !.trace = Append(c.trace, op)]

\* an exception raised outside every try block leaves latest: nothing is
\* returned
Propagate(c) == [c EXCEPT !.done = TRUE, !.failed = TRUE, !.raised = TRUE]

\* lines 372-401: force stands for force_clone, remote_name for remote, and
\* always_fetch has no effect
Kwargs(a) ==
    [a EXCEPT !.force_clone = IF a.force THEN a.force ELSE a.force_clone,
              !.remote = IF Truthy(a.remote_name) THEN a.remote_name ELSE a.remote]

Context(args0, test, f, g, rr) ==
    LET a == Kwargs(args0) IN
    [a |-> a, test |-> test, f |-> f, rr |-> rr, g |-> g,
     ret |-> NewRet(a.name), comments |-> <<>>, ops |-> <<>>, calls |-> <<>>,
     trace |-> <<>>, done |-> FALSE, failed |-> FALSE, raised |-> FALSE,
     rev |-> a.rev, bare |-> a.bare,
     remote_rev |-> Unbound, remote_rev_type |-> "unbound",
     desired_upstream |-> Unbound, head_ref |-> Unbound,
     local_rev |-> None, local_branch |-> None,
     base_rev |-> None, base_branch |-> None,
     all_local_branches |-> {},
     has_remote_rev |-> FALSE, fast_forward |-> "None",
     merge_action |-> "updated", upstream |-> None, fetch_url |-> NoUrl,
     branch_opts |-> "None", new_rev |-> None]

desired_fetch_url(a) == add_http_basic_auth(a.name, a.https_user, a.https_pass)
redacted_fetch_url(a) == redact_http_basic_auth(desired_fetch_url(a))

\* os.path.isabs
isabs(path) == path # <<>> /\ path[1] = "/"

\* lines 432-457: each identity path is cached when it is a salt:// URL, then
\* must be absolute
RECURSIVE IdentityCheck(_, _)
IdentityCheck(c, identity) ==
    IF identity = <<>> THEN c
    ELSE LET ident_path == Head(identity)
             salt == \E i \in DOMAIN ident_path : ident_path[i] = "salt://"
             c1 == IF salt THEN Call(c, "cp.cache_file") ELSE c
             cached == IF salt THEN cache_file(ident_path) ELSE ident_path
         IN IF salt /\ cached = None
            THEN Return(c1, _fail(c.ret, <<"identity '">> \o ident_path
                                         \o <<"' does not exist.">>, <<>>))
            ELSE IF ~isabs(cached)
            THEN Return(c1, _fail(c.ret, <<"identity '">> \o cached
                                         \o <<"' is not an absolute path">>, <<>>))
            ELSE IdentityCheck(c1, Tail(identity))

\* lines 403-489: argument checks
Validate(c) ==
    LET a == c.a
        c1 == IF a.identity = None THEN c ELSE IdentityCheck(c, a.identity)
    IN
    IF a.remote = None
    THEN Return(c, _fail(c.ret, <<"'remote' argument is required">>, <<>>))
    ELSE IF a.target = None
    THEN Return(c, _fail(c.ret, <<"'target' argument is required">>, <<>>))
    ELSE IF a.rev = None
    THEN Return(c, _fail(c.ret, <<"'' is not a valid value for the 'rev' argument">>, <<>>))
    ELSE IF ~isabs(a.target)
    THEN Return(c, _fail(c.ret, <<"target is not an absolute path">>, <<>>))
    ELSE IF c1.done THEN c1
    ELSE IF c.g.kind = "file"
    THEN Return(c1, _fail(c.ret, <<"Target exists and is a regular file, cannot proceed">>, <<>>))
    ELSE IF a.https_user # None /\ a.name.scheme # "https"
    THEN Return(c1, _fail(c.ret, <<"Basic Auth only supported for HTTPS">>, <<>>))
    ELSE IF a.rev # HEAD /\ (a.mirror \/ a.bare)
    THEN Return(c1, _fail(c.ret,
             <<"'rev' is not compatible with the 'mirror' and 'bare' arguments">>, <<>>))
    ELSE [c1 EXCEPT !.bare = a.mirror \/ a.bare]

\* RunCheck that runs the unless command before the onlyif command
RunCheckUnlessFirst(c) ==
    IF c.done THEN c ELSE
    LET a == c.a
        skip(r, comment) ==
            ("comment" :> comment) @@ ("skip_watch" :> TRUE)
                @@ ("result" :> "True") @@ r
        c1 == IF Truthy(a.unless) THEN Call(c, "cmd.retcode") ELSE c
        c2 == IF Truthy(a.onlyif) THEN Call(c1, "cmd.retcode") ELSE c1
    IN IF Truthy(a.unless) /\ retcode(a.unless) = 0
       THEN Return(c1, skip(c.ret, <<"unless execution succeeded">>))
       ELSE IF Truthy(a.onlyif) /\ retcode(a.onlyif) # 0
       THEN Return(c2, skip(c.ret, <<"onlyif execution failed">>))
       ELSE c2

\* lines 491-501 and mod_run_check (lines 2044-2068): the onlyif and unless
\* commands decide whether the state is applied at all
RunCheck(c) ==
    IF c.done THEN c ELSE
    LET a == c.a
        skip(r, comment) ==
            ("comment" :> comment) @@ ("skip_watch" :> TRUE)
                @@ ("result" :> "True") @@ r
        c1 == IF Truthy(a.onlyif) THEN Call(c, "cmd.retcode") ELSE c
        c2 == IF Truthy(a.unless) THEN Call(c1, "cmd.retcode") ELSE c1
    IN IF Truthy(a.onlyif) /\ retcode(a.onlyif) # 0
       THEN Return(c1, skip(c.ret, <<"onlyif execution failed">>))
       ELSE IF Truthy(a.unless) /\ retcode(a.unless) = 0
       THEN Return(c2, skip(c.ret, <<"unless execution succeeded">>))
       ELSE c2

\* ClassifyRefs that looks for a tag of the name before a branch
ClassifyRefsTagFirst(c, all_remote_refs) ==
    LET a == c.a
        rev == a.rev
        has(k) == k \in DOMAIN all_remote_refs
    IN IF c.bare THEN [c EXCEPT !.remote_rev = None]
       ELSE IF rev = HEAD
       THEN IF has(HEAD)
            THEN [c EXCEPT !.head_ref = a.remote \o Slash \o HEAD,
                           !.remote_rev = all_remote_refs[HEAD],
                           !.desired_upstream = None,
                           !.remote_rev_type = "sha1"]
            ELSE [c EXCEPT !.remote_rev = None, !.remote_rev_type = "None"]
       ELSE IF has(<<"refs/tags/">> \o rev \o <<"^{}">>)
       THEN [c EXCEPT !.remote_rev = all_remote_refs[<<"refs/tags/">> \o rev \o <<"^{}">>],
                      !.desired_upstream = FalseV,
                      !.remote_rev_type = "tag"]
       ELSE IF has(<<"refs/tags/">> \o rev)
       THEN [c EXCEPT !.remote_rev = all_remote_refs[<<"refs/tags/">> \o rev],
                      !.desired_upstream = FalseV,
                      !.remote_rev_type = "tag"]
       ELSE IF has(<<"refs/heads/">> \o rev)
       THEN [c EXCEPT !.remote_rev = all_remote_refs[<<"refs/heads/">> \o rev],
                      !.desired_upstream = a.remote \o Slash \o rev,
                      !.remote_rev_type = "branch"]
       ELSE IF Len(rev) <= MaxShaLen /\ \A i \in DOMAIN rev : rev[i] \in hexdigits
       THEN [c EXCEPT !.rev = lower(rev),
                      !.remote_rev = lower(rev),
                      !.desired_upstream = FalseV,
                      !.remote_rev_type = "sha1"]
       ELSE [c EXCEPT !.remote_rev = None]

\* lines 525-566: classify rev against the refs the remote advertises
ClassifyRefs(c, all_remote_refs) ==
    LET a == c.a
        rev == a.rev
        has(k) == k \in DOMAIN all_remote_refs
    IN IF c.bare THEN [c EXCEPT !.remote_rev = None]
       ELSE IF rev = HEAD
       THEN IF has(HEAD)
            THEN [c EXCEPT !.head_ref = a.remote \o Slash \o HEAD,
                           !.remote_rev = all_remote_refs[HEAD],
                           !.desired_upstream = None,
                           !.remote_rev_type = "sha1"]
            ELSE [c EXCEPT !.remote_rev = None, !.remote_rev_type = "None"]
       ELSE IF has(<<"refs/heads/">> \o rev)
       THEN [c EXCEPT !.remote_rev = all_remote_refs[<<"refs/heads/">> \o rev],
                      !.desired_upstream = a.remote \o Slash \o rev,
                      !.remote_rev_type = "branch"]
       ELSE IF has(<<"refs/tags/">> \o rev \o <<"^{}">>)
       THEN [c EXCEPT !.remote_rev = all_remote_refs[<<"refs/tags/">> \o rev \o <<"^{}">>],
                      !.desired_upstream = FalseV,
                      !.remote_rev_type = "tag"]
       ELSE IF has(<<"refs/tags/">> \o rev)
       THEN [c EXCEPT !.remote_rev = all_remote_refs[<<"refs/tags/">> \o rev],
                      !.desired_upstream = FalseV,
                      !.remote_rev_type = "tag"]
       ELSE IF Len(rev) <= MaxShaLen /\ \A i \in DOMAIN rev : rev[i] \in hexdigits
       THEN [c EXCEPT !.rev = lower(rev),
                      !.remote_rev = lower(rev),
                      !.desired_upstream = FalseV,
                      !.remote_rev_type = "sha1"]
       ELSE [c EXCEPT !.remote_rev = None]

\* lines 508-566: the refs are those git.remote_refs lists
ClassifyRev(c) == ClassifyRefs(c, remote_refs(c.rr))

\* ResolveRev without lines 568-576: a rev the remote does not have is let
\* through
ResolveRevUnchecked(c) ==
    IF c.done THEN c
    ELSE IF c.f = "remote_refs"
    THEN [Return(Call(c, "remote_refs"),
                 _fail(c.ret, <<"Failed to check remote refs: ">>, <<>>))
             EXCEPT !.failed = TRUE]
    ELSE ClassifyRev(Call(c, "remote_refs"))

\* lines 525-576: classify rev against the refs listed, fail when the remote
\* has no such revision
ResolveRefs(c, all_remote_refs) ==
    LET r1 == ClassifyRefs(Call(c, "remote_refs"), all_remote_refs) IN
    IF r1.remote_rev = None /\ ~c.bare /\ r1.rev # HEAD
    THEN Return(r1, _fail(c.ret,
             <<"No revision matching '">> \o r1.rev
                \o <<"' exists in the remote repository">>, <<>>))
    ELSE r1

\* lines 508-576: read the remote's refs, classify rev, fail when the remote
\* has no such revision
ResolveRev(c) ==
    IF c.done THEN c
    ELSE IF c.f = "remote_refs"
    THEN [Return(Call(c, "remote_refs"),
                 _fail(c.ret, <<"Failed to check remote refs: ">>, <<>>))
             EXCEPT !.failed = TRUE]
    ELSE ResolveRefs(c, remote_refs(c.rr))

\* lines 578-583: the version of git decides how the upstream is set; the
\* call is in no try block
GitVersion(c) ==
    IF c.done THEN c
    ELSE IF c.f = "version" THEN Propagate(Call(c, "version"))
    ELSE Call(c, "version")

\* line 588: the target holds a repository of the wanted kind
IsRepository(c) == c.g.kind = (IF c.bare THEN "bare" ELSE "repo")

(***************************************************************************)
(* The target is a repository (lines 588-1207)                             *)
(***************************************************************************)
\* lines 590-635: local facts, base revision and base branch
LocalFacts(c) ==
    IF c.done THEN c ELSE
    LET g == c.g
        a == c.a
        all_local_branches == list_branches(g)
        local_rev == revision(g)
        local_branch == current_branch(g)
        switch == a.branch # None /\ a.branch # local_branch
                  /\ a.branch \in all_local_branches
        c1 == [c EXCEPT !.all_local_branches = all_local_branches,
                        !.local_rev = local_rev,
                        !.local_branch = local_branch,
                        !.base_rev = IF switch THEN rev_parse(g, a.branch)
                                     ELSE local_rev,
                        !.base_branch = IF switch THEN a.branch ELSE local_branch]
    IN IF c.remote_rev = None /\ local_rev # None
       THEN Return(c1, _fail(c.ret,
                <<"Remote repository is empty, cannot update from a non-empty to an empty repository">>,
                <<>>))
       ELSE IF switch /\ rev_parse(g, a.branch) = None
       THEN [Return(c1, _fail(c.ret, <<"Unable to get position of local branch">>,
                              c.comments)) EXCEPT !.failed = TRUE]
       ELSE c1

\* lines 637-721: is the remote revision already present locally?
TagMoved(c) ==
    /\ c.remote_rev_type = "tag"
    /\ c.rev \in list_tags(c.g)
    /\ rev_parse(c.g, c.rev) # c.remote_rev

\* HasRemoteRev that trusts the object alone: a branch rev counts as present
\* as soon as its commit is in the object store
HasRemoteRevObjectOnly(c) ==
    IF c.done THEN c ELSE
    LET g == c.g IN
    IF c.remote_rev_type = "unbound"
    THEN Crash(c, <<"local variable 'remote_rev_type' referenced before assignment">>)
    ELSE IF c.remote_rev_type = "sha1" /\ c.base_rev # None
            /\ startswith(c.base_rev, c.remote_rev)
    THEN [c EXCEPT !.has_remote_rev = TRUE]
    ELSE IF c.remote_rev = None \/ rev_parse(g, c.remote_rev) = None
    THEN [c EXCEPT !.has_remote_rev = FALSE]
    ELSE IF c.remote_rev_type = "branch"
    THEN [c EXCEPT !.has_remote_rev = TRUE]
    ELSE IF c.remote_rev_type = "tag"
    THEN IF c.rev \notin list_tags(g) THEN [c EXCEPT !.has_remote_rev = FALSE]
         ELSE IF ~TagMoved(c) THEN [c EXCEPT !.has_remote_rev = TRUE]
         ELSE [c EXCEPT !.has_remote_rev = FALSE]
    ELSE [c EXCEPT !.has_remote_rev = (c.remote_rev_type = "sha1")]

HasRemoteRev(c) ==
    IF c.done THEN c ELSE
    LET g == c.g IN
    IF c.remote_rev_type = "unbound"
    THEN Crash(c, <<"local variable 'remote_rev_type' referenced before assignment">>)
    ELSE IF c.remote_rev_type = "sha1" /\ c.base_rev # None
            /\ startswith(c.base_rev, c.remote_rev)
    THEN [c EXCEPT !.has_remote_rev = TRUE]
    ELSE IF c.remote_rev = None \/ rev_parse(g, c.remote_rev) = None
    THEN [c EXCEPT !.has_remote_rev = FALSE]
    ELSE IF c.remote_rev_type = "branch"
    THEN [c EXCEPT !.has_remote_rev =
                      /\ c.a.remote \in remotes(g)
                      /\ rev_parse(g, c.desired_upstream) = c.remote_rev]
    ELSE IF c.remote_rev_type = "tag"
    THEN IF c.rev \notin list_tags(g) THEN [c EXCEPT !.has_remote_rev = FALSE]
         ELSE IF ~TagMoved(c) THEN [c EXCEPT !.has_remote_rev = TRUE]
         ELSE IF ~c.a.force_reset
         THEN Return(c, _fail(c.ret,
                  <<"'">> \o c.rev \o <<"' is a tag, but the remote SHA1 for this tag (">>
                    \o _short_sha(c.remote_rev) \o <<") doesn't match the local SHA1 (">>
                    \o _short_sha(rev_parse(g, c.rev))
                    \o <<"). Set 'force_reset' to True to force this update.">>,
                  <<>>))
         ELSE [c EXCEPT !.has_remote_rev = FALSE]
    ELSE [c EXCEPT !.has_remote_rev = (c.remote_rev_type = "sha1")]

\* lines 723-744 and 1009-1016: fast-forward classification
Classify(c) ==
    IF c.base_rev = None THEN "True"
    ELSE IF merge_base(c.g, c.base_rev, c.remote_rev) THEN "True"
    ELSE "False"

\* lines 739-744, 1012-1016: git.merge_base is asked only when there is a
\* base revision
MergeBaseCall(c) == IF c.base_rev = None THEN c ELSE Call(c, "merge_base")

\* lines 723-759
FastForward(c) ==
    IF c.done THEN c ELSE
    LET ff == IF ~c.has_remote_rev THEN "None" ELSE Classify(c)
        c1 == IF c.has_remote_rev THEN MergeBaseCall(c) ELSE c
    IN
    IF ff = "False" /\ ~c.a.force_reset
    THEN Return([c1 EXCEPT !.fast_forward = ff],
                _not_fast_forward(c.ret, c.base_rev, c.remote_rev, c.a.branch,
                                  c.local_branch, c.comments))
    ELSE [c1 EXCEPT !.fast_forward = ff,
                   !.merge_action = IF ff = "False" THEN "hard-reset"
                                    ELSE IF ff = "True" THEN "fast-forwarded"
                                    ELSE "updated"]

\* lines 761-790: the upstream of the base branch, the remote's fetch URL
UpstreamAndUrl(c) ==
    IF c.done THEN c ELSE
    [c EXCEPT !.upstream =
                 IF c.base_branch = None THEN None
                 ELSE IF rev_parse_upstream(c.g, c.base_branch) = None THEN FalseV
                 ELSE rev_parse_upstream(c.g, c.base_branch),
              !.fetch_url = IF c.a.remote \in remotes(c.g)
                            THEN c.g.remotes[c.a.remote] ELSE NoUrl]

RemotesKey(a) == <<"remotes/">> \o a.remote

\* RemoteUrl without 'remote_rev is not None' at line 792: the URL is set
\* whether or not the remote has the revision
RemoteUrlAnyRev(c) ==
    IF c.done THEN c ELSE
    LET a == c.a
        entry == [old |-> redact_http_basic_auth(c.fetch_url),
                  new |-> redacted_fetch_url(a)]
    IN
    IF desired_fetch_url(a) = c.fetch_url THEN c
    ELSE IF c.test
    THEN LET differs == ~_revs_equal(c.local_rev, c.remote_rev, c.remote_rev_type)
             r1 == SetChange(c.ret, RemotesKey(a), entry)
             r2 == IF differs
                   THEN SetChange(r1, <<"revision">>,
                                  [old |-> c.local_rev, new |-> c.remote_rev])
                   ELSE r1
             r3 == IF differs /\ c.fast_forward = "False"
                   THEN SetChange(r2, <<"forced update">>, TRUE)
                   ELSE r2
             actions == <<"Remote '" \o Format(a.remote) \o "' would be set to "
                              \o Format(UrlText(redacted_fetch_url(a)))>>
                        \o (IF ~c.has_remote_rev THEN <<"Remote would be fetched">>
                            ELSE <<>>)
                        \o (IF differs
                            THEN <<"Repository would be " \o c.merge_action
                                       \o " to "
                                       \o Format(_short_sha(c.remote_rev))>>
                            ELSE <<>>)
         IN IF r3.changes # <<>>
            THEN Return(c, _neutral_test(r3, _format_comments(actions)))
            ELSE Return(c, _uptodate(r3, a.target,
                                     Characters(_format_comments(actions))))
    ELSE IF c.f = "remote_set"
    THEN Raise(Invoke(c, "remote_set"), <<"remote_set failed">>)
    ELSE [Invoke(c, "remote_set") EXCEPT
             !.g = git_remote_set(c.g, a.remote, desired_fetch_url(a)).g,
             !.ret = SetChange(c.ret, RemotesKey(a), entry),
             !.comments = Append(c.comments, "Remote set")]

\* lines 792-845: the remote's URL differs from the desired one
RemoteUrl(c) ==
    IF c.done THEN c ELSE
    LET a == c.a
        entry == [old |-> redact_http_basic_auth(c.fetch_url),
                  new |-> redacted_fetch_url(a)]
    IN
    IF ~(c.remote_rev # None /\ desired_fetch_url(a) # c.fetch_url) THEN c
    ELSE IF c.test
    THEN LET differs == ~_revs_equal(c.local_rev, c.remote_rev, c.remote_rev_type)
             r1 == SetChange(c.ret, RemotesKey(a), entry)
             r2 == IF differs
                   THEN SetChange(r1, <<"revision">>,
                                  [old |-> c.local_rev, new |-> c.remote_rev])
                   ELSE r1
             r3 == IF differs /\ c.fast_forward = "False"
                   THEN SetChange(r2, <<"forced update">>, TRUE)
                   ELSE r2
             actions == <<"Remote '" \o Format(a.remote) \o "' would be set to "
                              \o Format(UrlText(redacted_fetch_url(a)))>>
                        \o (IF ~c.has_remote_rev THEN <<"Remote would be fetched">>
                            ELSE <<>>)
                        \o (IF differs
                            THEN <<"Repository would be " \o c.merge_action
                                       \o " to "
                                       \o Format(_short_sha(c.remote_rev))>>
                            ELSE <<>>)
         IN IF r3.changes # <<>>
            THEN Return(c, _neutral_test(r3, _format_comments(actions)))
            ELSE Return(c, _uptodate(r3, a.target,
                                     Characters(_format_comments(actions))))
    ELSE IF c.f = "remote_set"
    THEN Raise(Invoke(c, "remote_set"), <<"remote_set failed">>)
    ELSE [Invoke(c, "remote_set") EXCEPT
             !.g = git_remote_set(c.g, a.remote, desired_fetch_url(a)).g,
             !.ret = SetChange(c.ret, RemotesKey(a), entry),
             !.comments = Append(c.comments, "Remote set")]

\* BranchOpts that takes a desired_upstream of None (rev is HEAD) for False
\* (rev is a tag or a SHA1)
BranchOptsFalsy(upstream, desired_upstream) ==
    IF ~Truthy(upstream) /\ Truthy(desired_upstream) THEN "set"
    ELSE IF Truthy(upstream) /\ ~Truthy(desired_upstream) THEN "unset"
    ELSE IF Truthy(desired_upstream) /\ upstream # desired_upstream THEN "update"
    ELSE "None"

\* lines 916-935 and 948-966: what to do with the tracking branch
BranchOpts(upstream, desired_upstream) ==
    IF ~Truthy(upstream) /\ Truthy(desired_upstream) THEN "set"
    ELSE IF Truthy(upstream) /\ desired_upstream = FalseV THEN "unset"
    ELSE IF Truthy(desired_upstream) /\ upstream # desired_upstream THEN "update"
    ELSE "None"

\* lines 847-946: the dry-run report
TestReport(c) ==
    IF c.done \/ c.remote_rev = None \/ ~c.test THEN c ELSE
    LET a == c.a
        differs == ~_revs_equal(c.local_rev, c.remote_rev, c.remote_rev_type)
        switch == a.branch # None /\ a.branch # c.local_branch
        isnew == a.branch \notin c.all_local_branches
        opts == BranchOpts(c.upstream, c.desired_upstream)
        r1 == IF differs
              THEN SetChange(c.ret, <<"revision">>,
                             [old |-> c.local_rev, new |-> c.remote_rev])
              ELSE c.ret
        r2 == IF switch
              THEN SetChange(r1, <<"local branch">>,
                             [old |-> c.local_branch, new |-> a.branch])
              ELSE r1
        r3 == IF switch /\ ~isnew /\ c.fast_forward = "False"
              THEN SetChange(r2, <<"hard reset">>, TRUE)
              ELSE r2
        r4 == IF opts # "None"
              THEN SetChange(r3, <<"upstream">>,
                             [old |-> c.upstream, new |-> c.desired_upstream])
              ELSE r3
        short == Format(_short_sha(c.remote_rev))
        actions ==
            (IF ~c.has_remote_rev
             THEN <<"Remote '" \o Format(a.remote) \o "' would be fetched">>
             ELSE <<>>)
            \o (IF a.branch # None
                THEN IF switch
                     THEN IF isnew
                          THEN <<"New branch '" \o Format(a.branch)
                                     \o "' would be checked out, with "
                                     \o Format(IF Truthy(c.desired_upstream)
                                               THEN c.desired_upstream ELSE c.rev)
                                     \o " (" \o short \o ") as a starting point">>
                               \o (IF Truthy(c.desired_upstream)
                                   THEN <<"Tracking branch would be set to "
                                              \o Format(c.desired_upstream)>>
                                   ELSE <<>>)
                          ELSE <<"Branch '" \o Format(a.branch)
                                     \o "' would be checked out and "
                                     \o c.merge_action \o " to " \o short>>
                     ELSE <<>>
                ELSE IF differs
                THEN IF c.fast_forward = "True"
                     THEN <<"Repository would be fast-forwarded from "
                                \o Format(_short_sha(c.local_rev))
                                \o " to " \o short>>
                     ELSE <<"Repository would be "
                                \o (IF a.force_reset /\ c.has_remote_rev
                                    THEN "hard-reset" ELSE "updated")
                                \o " from " \o Format(_short_sha(c.local_rev))
                                \o " to " \o short>>
                ELSE <<>>)
            \o (IF opts = "set"
                THEN <<"Tracking branch would be set to "
                           \o Format(c.desired_upstream)>>
                ELSE IF opts = "unset" THEN <<"Tracking branch would be unset">>
                ELSE IF opts = "update"
                THEN <<"Tracking branch would be updated to "
                           \o Format(c.desired_upstream)>>
                ELSE <<>>)
    \* lines 941-946: _uptodate is handed a str and takes it for its comments
    IN IF r4.changes # <<>>
       THEN Return(c, _neutral_test(r4, _format_comments(actions)))
       ELSE Return(c, _uptodate(r4, a.target,
                                Characters(_format_comments(actions))))

\* lines 968-1005: fetch, and make sure the remote revision has arrived
FetchRev(c) ==
    LET a == c.a
        c0 == Invoke(c, "fetch")
        res == git_fetch(c.g, a.remote, a.force_fetch, a.fetch_tags, c.rr)
        fetch_changes == _parse_fetch(res.out)
        c1 == [c0 EXCEPT !.g = res.g,
                         !.ret = IF fetch_changes # <<>>
                                 THEN SetChange(c.ret, <<"fetch">>, fetch_changes)
                                 ELSE c.ret]
    IN IF c.f = "fetch"
       THEN [Return(c0, _fail(c.ret, <<"Fetch failed">>, c.comments))
                EXCEPT !.failed = TRUE]
       ELSE IF ~res.ok
       THEN [Return([c0 EXCEPT !.g = res.g],
                    _fail(c.ret, <<"Fetch failed">>, c.comments))
                EXCEPT !.failed = TRUE]
       ELSE IF rev_parse(c1.g, c.remote_rev) = None
       THEN [Return(c1, _fail(c1.ret, <<"Fetch did not successfully retrieve rev">>, <<>>))
                EXCEPT !.failed = TRUE]
       ELSE c1

\* Fetch without the return of lines 1018-1025: a divergence found after the
\* fetch is not refused
FetchNoRefusal(c) ==
    IF c.done \/ c.remote_rev = None \/ c.has_remote_rev THEN c ELSE
    LET c1 == FetchRev(c) IN
    IF c1.done THEN c1 ELSE [MergeBaseCall(c1) EXCEPT !.fast_forward = Classify(c1)]

\* lines 968-1025: fetch when the remote revision is not present, then
\* classify again
Fetch(c) ==
    IF c.done \/ c.remote_rev = None \/ c.has_remote_rev THEN c ELSE
    LET c1 == FetchRev(c)
        ff == Classify(c1)
        c2 == MergeBaseCall(c1)
    IN IF c1.done THEN c1
       ELSE IF ff = "False" /\ ~c.a.force_reset
       THEN Return([c2 EXCEPT !.fast_forward = ff],
                   _not_fast_forward(c1.ret, c.base_rev, c.remote_rev, c.a.branch,
                                     c.local_branch, c.comments))
       ELSE [c2 EXCEPT !.fast_forward = ff]

\* lines 1043-1048, 1063-1068: the ref named when checking out or resetting
CheckoutRev(c) ==
    IF c.rev = HEAD THEN c.head_ref
    ELSE IF Truthy(c.desired_upstream) THEN c.desired_upstream
    ELSE c.rev

\* Checkout without the refusal of lines 1030-1036: uncommitted changes do
\* not stop the switch
CheckoutOverChanges(c) ==
    IF c.done \/ c.remote_rev = None THEN c ELSE
    LET a == c.a
        c0 == Invoke(c, "checkout")
        res == IF a.branch \notin c.all_local_branches
               THEN git_checkout_new(c.g, a.branch, CheckoutRev(c), a.force_checkout)
               ELSE git_checkout(c.g, a.branch, a.force_checkout)
    IN IF ~(a.branch # None /\ a.branch # c.local_branch) THEN c
       ELSE IF c.f = "checkout" \/ ~res.ok
       THEN Raise(c0, <<"checkout failed">>)
       ELSE [c0 EXCEPT !.g = res.g,
                       !.ret = SetChange(c.ret, <<"local branch">>,
                                  [old |-> c.local_branch, new |-> a.branch])]

\* lines 1027-1060: check out the wanted local branch
Checkout(c) ==
    IF c.done \/ c.remote_rev = None THEN c ELSE
    LET a == c.a
        c0 == Invoke(c, "checkout")
        res == IF a.branch \notin c.all_local_branches
               THEN git_checkout_new(c.g, a.branch, CheckoutRev(c), a.force_checkout)
               ELSE git_checkout(c.g, a.branch, a.force_checkout)
    IN IF ~(a.branch # None /\ a.branch # c.local_branch) THEN c
       ELSE IF status(c.g) /\ ~a.force_checkout
       THEN Return(c, _fail(c.ret,
                <<"Local branch has uncommitted changes. Set 'force_checkout' to discard them and proceed.">>,
                <<>>))
       ELSE IF c.f = "checkout" \/ ~res.ok
       THEN Raise(c0, <<"checkout failed">>)
       ELSE [c0 EXCEPT !.g = res.g,
                       !.ret = SetChange(c.ret, <<"local branch">>,
                                  [old |-> c.local_branch, new |-> a.branch])]

\* HardReset without the block of lines 1062-1080
HardResetSkipped(c) == c

\* lines 1062-1080: hard reset of a forced, non-fast-forward update
HardReset(c) ==
    IF c.done \/ c.remote_rev = None \/ c.fast_forward # "False" THEN c ELSE
    LET c0 == Invoke(c, "reset")
        res == git_reset(c.g, c.remote_rev)
    IN IF c.f = "reset" \/ ~res.ok THEN Raise(c0, <<"reset failed">>)
       ELSE [c0 EXCEPT !.g = res.g,
                       !.ret = SetChange(c.ret, <<"forced update">>, TRUE),
                       !.comments = Append(c.comments, "Repository was hard-reset")]

\* Tracking without the git.branch call of lines 1082-1093
TrackingSkipped(c) == c

\* lines 1082-1093: set, update or unset the tracking branch of the base branch
Tracking(c) ==
    IF c.done \/ c.remote_rev = None THEN c ELSE
    LET opts == BranchOpts(c.upstream, c.desired_upstream)
        c0 == Invoke(c, "branch")
        res == IF opts = "unset" THEN git_branch_unset_upstream(c.g, c.base_branch)
               ELSE git_branch_set_upstream(c.g, c.base_branch, c.desired_upstream)
    IN IF opts = "None" THEN c
       ELSE IF c.f = "branch" \/ ~res.ok THEN Raise(c0, <<"branch failed">>)
       ELSE [c0 EXCEPT !.g = res.g,
                       !.ret = SetChange(c.ret, <<"upstream">>,
                                  [old |-> c.upstream,
                                   new |-> IF Truthy(c.desired_upstream)
                                           THEN c.desired_upstream ELSE None]),
                       !.comments = Append(c.comments,
                                       IF opts = "set" THEN "Tracking branch was set"
                                       ELSE IF opts = "unset" THEN "Tracking branch was unset"
                                       ELSE "Tracking branch was updated")]

\* FastForwardApply without the merge or reset of lines 1095-1141
FastForwardApplySkipped(c) == c

\* lines 1095-1141: apply a fast-forward by merge, or by reset when there is
\* no upstream to merge
FastForwardApply(c) ==
    IF c.done \/ c.remote_rev = None THEN c ELSE
    IF ~(c.fast_forward = "True"
         /\ ~_revs_equal(c.base_rev, c.remote_rev, c.remote_rev_type)) THEN c
    ELSE IF Truthy(c.desired_upstream)
    THEN IF symbolic_ref(c.g)
         THEN LET c0 == Invoke(c, "merge")
                  res == git_merge(c.g, IF c.rev = HEAD THEN c.head_ref
                                        ELSE c.desired_upstream)
              IN IF c.f = "merge" \/ ~res.ok THEN Raise(c0, <<"merge failed">>)
                 ELSE [c0 EXCEPT !.g = res.g,
                                 !.comments = Append(c.comments,
                                                 "Repository was fast-forwarded")]
         ELSE c
    ELSE LET c0 == Invoke(c, "reset")
             res == git_reset(c.g, IF c.rev = HEAD THEN c.remote_rev ELSE c.rev)
         IN IF c.f = "reset" \/ ~res.ok THEN Raise(c0, <<"reset failed">>)
            ELSE [c0 EXCEPT !.g = res.g,
                            !.comments = Append(c.comments,
                                            "Repository was reset (fast-forward)")]

\* lines 1143-1150
Submodules(c) ==
    IF c.done \/ c.remote_rev = None \/ ~c.a.submodules THEN c
    ELSE IF c.f = "submodule" THEN Raise(Invoke(c, "submodule"), <<"submodule failed">>)
    ELSE Invoke(c, "submodule")

\* lines 1151-1173: a bare repository is only fetched
BareFetch(c) ==
    IF c.done \/ c.remote_rev # None \/ ~c.bare THEN c
    ELSE IF c.test
    THEN LET msg == <<"Bare repository at " \o Format(c.a.target)
                          \o " would be fetched">>
         IN IF c.ret.changes # <<>>
            THEN Return(c, _neutral_test(c.ret, msg))
            ELSE Return(c, _uptodate(c.ret, c.a.target, Characters(msg)))
    ELSE LET c0 == Invoke(c, "fetch")
             res == git_fetch(c.g, c.a.remote, c.a.force_fetch, c.a.fetch_tags, c.rr)
             fetch_changes == _parse_fetch(res.out)
         IN IF c.f = "fetch"
            THEN Raise(c0, <<"fetch failed">>)
            ELSE IF ~res.ok
            THEN Raise([c0 EXCEPT !.g = res.g], <<"fetch failed">>)
            ELSE [c0 EXCEPT !.g = res.g,
                            !.ret = IF fetch_changes # <<>>
                                    THEN SetChange(c.ret, <<"fetch">>, fetch_changes)
                                    ELSE c.ret,
                            !.comments = Append(c.comments,
                                                "Bare repository at "
                                                    \o Format(c.a.target)
                                                    \o " was fetched")]

\* FinishUpdate without the comparison of lines 1194-1197
FinishUpdateUnchecked(c) ==
    IF c.done THEN c ELSE
    LET new_rev == revision(c.g)
        c1 == [c EXCEPT !.new_rev = new_rev]
    IN IF c.local_rev # new_rev
       THEN Return(c1, [SetChange(c.ret, <<"revision">>,
                                  [old |-> c.local_rev, new |-> new_rev])
                           EXCEPT !.comment = _format_comments(c.comments)])
       ELSE Return(c1, _uptodate(c.ret, c.a.target, c.comments))

\* lines 1175-1207: compare the revision reached with the remote revision
FinishUpdate(c) ==
    IF c.done THEN c ELSE
    LET new_rev == revision(c.g)
        c1 == [c EXCEPT !.new_rev = new_rev]
    IN IF ~c.bare /\ ~_revs_equal(new_rev, c.remote_rev, c.remote_rev_type)
       THEN Return(c1, _fail(c.ret, <<"Failed to update repository">>, c.comments))
       ELSE IF c.local_rev # new_rev
       THEN Return(c1, [SetChange(c.ret, <<"revision">>,
                                  [old |-> c.local_rev, new |-> new_rev])
                           EXCEPT !.comment = _format_comments(c.comments)])
       ELSE Return(c1, _uptodate(c.ret, c.a.target, c.comments))

\* UpdateRepository with the branch checked out before the fetch
UpdateRepositoryCheckoutFirst(c) ==
    FinishUpdate(BareFetch(Submodules(FastForwardApply(Tracking(HardReset(
        Fetch(Checkout(TestReport(RemoteUrl(UpstreamAndUrl(FastForward(
            HasRemoteRev(LocalFacts(c))))))))))))))

\* lines 588-1207
UpdateRepository(c) ==
    FinishUpdate(BareFetch(Submodules(FastForwardApply(Tracking(HardReset(
        Checkout(Fetch(TestReport(RemoteUrl(UpstreamAndUrl(FastForward(
            HasRemoteRev(LocalFacts(c))))))))))))))

(***************************************************************************)
(* The target is no repository (lines 1208-1434)                           *)
(***************************************************************************)
NewKey == <<"new">>
NewValue(a) == UrlText(a.name) \o <<" => ">> \o a.target

\* ClearTarget that removes the directory whether or not force_clone is set
ClearTargetUnguarded(c) ==
    IF c.done \/ c.g.kind \in {"absent", "file"} THEN c
    ELSE IF c.test
    THEN Return(c, _neutral_test(
             SetChange(SetChange(c.ret, <<"forced clone">>, TRUE),
                       NewKey, NewValue(c.a)),
             <<"Target directory exists. Since force_clone=True, the contents would be deleted, and the repository would be cloned into this directory.">>))
    ELSE [Invoke(c, "rm_rf") EXCEPT
             !.g = Blank("absent"),
             !.ret = SetChange(c.ret, <<"forced clone">>, TRUE)]

\* lines 1209-1250: an existing directory in the way
ClearTarget(c) ==
    IF c.done \/ c.g.kind \in {"absent", "file"} THEN c
    ELSE IF c.a.force_clone
    THEN IF c.test
         THEN Return(c, _neutral_test(
                  SetChange(SetChange(c.ret, <<"forced clone">>, TRUE),
                            NewKey, NewValue(c.a)),
                  <<"Target directory exists. Since force_clone=True, the contents would be deleted, and the repository would be cloned into this directory.">>))
         ELSE IF c.f = "rm_rf"
         THEN [Return(Invoke(c, "rm_rf"),
                      _fail(c.ret, <<"Unable to remove target">>, c.comments))
                  EXCEPT !.failed = TRUE]
         ELSE [Invoke(c, "rm_rf") EXCEPT
                  !.g = Blank("absent"),
                  !.ret = SetChange(c.ret, <<"forced clone">>, TRUE)]
    ELSE IF c.g.kind # "emptydir"
    THEN Return(c, _fail(c.ret,
             <<"Target exists, is non-empty and is not a git repository. Set the 'force_clone' option to True to remove this directory's contents and proceed with cloning the remote repository">>,
             <<>>))
    ELSE c

\* TestClone without the dry-run return of lines 1255-1262
TestCloneUnguarded(c) == c

\* lines 1255-1262
TestClone(c) ==
    IF c.done \/ ~c.test THEN c
    ELSE Return(c, _neutral_test(SetChange(c.ret, NewKey, NewValue(c.a)),
                                 <<"Repository would be cloned">>))

\* lines 1263-1289
Clone(c) ==
    IF c.done THEN c ELSE
    LET a == c.a
        c0 == [Invoke(c, "clone") EXCEPT !.local_rev = None, !.local_branch = None]
        res == git_clone(c.g, desired_fetch_url(a), c.bare, a.remote, c.rr)
    IN IF c.f = "clone" \/ ~res.ok THEN Raise(c0, <<"clone failed">>)
       ELSE [c0 EXCEPT !.g = res.g,
                       !.ret = SetChange(c.ret, NewKey, NewValue(a)),
                       !.comments = Append(c.comments,
                                       IF a.mirror THEN "cloned as mirror"
                                       ELSE IF c.bare THEN "cloned as bare repository"
                                       ELSE "cloned")]

\* lines 1291-1313: an empty clone cannot hold the wanted revision; the tag
\* must exist in the clone
CloneTag(c) ==
    IF c.done \/ c.bare THEN c
    ELSE IF ~Truthy(c.remote_rev)
    THEN IF c.rev # HEAD
         THEN Return(c, _fail(c.ret, <<"Repository was cloned but is empty">>,
                              c.comments))
         ELSE c
    ELSE IF c.remote_rev_type = "tag" /\ c.rev \notin list_tags(c.g)
    THEN Return(c, _fail(c.ret, <<"Revision does not exist in clone">>, c.comments))
    ELSE c

\* lines 1315-1338: create the wanted local branch
CloneBranch(c) ==
    IF c.done \/ c.bare \/ ~Truthy(c.remote_rev) THEN c
    ELSE IF c.a.branch = None \/ c.a.branch \in list_branches(c.g) THEN c
    ELSE LET c0 == Invoke(c, "checkout")
             res == git_checkout_new(c.g, c.a.branch, CheckoutRev(c), FALSE)
         IN IF c.f = "checkout" \/ ~res.ok THEN Raise(c0, <<"checkout failed">>)
            ELSE [c0 EXCEPT !.g = res.g,
                            !.comments = Append(c.comments, "Branch checked out")]

\* lines 1340-1363: reset the fresh clone to the remote revision
CloneReset(c) ==
    IF c.done \/ c.bare \/ ~Truthy(c.remote_rev) THEN c ELSE
    LET c1 == [c EXCEPT !.local_rev = revision(c.g),
                        !.local_branch = current_branch(c.g)]
        c0 == Invoke(c1, "reset")
        res == git_reset(c.g, c.remote_rev)
    IN IF _revs_equal(c1.local_rev, c.remote_rev, c.remote_rev_type) THEN c1
       ELSE IF c.f = "reset" \/ ~res.ok THEN Raise(c0, <<"reset failed">>)
       ELSE [c0 EXCEPT !.g = res.g,
                       !.comments = Append(c.comments, "Repository was reset")]

\* lines 1365-1401: the tracking branch of the branch checked out
CloneTracking(c) ==
    IF c.done \/ c.bare \/ ~Truthy(c.remote_rev) THEN c
    ELSE IF c.local_branch = None
    THEN Crash(c, <<"unsupported operand type(s) for +: 'NoneType' and 'str'">>)
    ELSE
    LET up == IF rev_parse_upstream(c.g, c.local_branch) = None THEN FalseV
              ELSE rev_parse_upstream(c.g, c.local_branch)
        opts == BranchOpts(up, c.desired_upstream)
        c0 == Invoke([c EXCEPT !.upstream = up], "branch")
        res == IF opts = "unset" THEN git_branch_unset_upstream(c.g, c.local_branch)
               ELSE git_branch_set_upstream(c.g, c.local_branch, c.desired_upstream)
    IN IF opts = "None" THEN [c EXCEPT !.upstream = up]
       ELSE IF c.f = "branch" \/ ~res.ok THEN Raise(c0, <<"branch failed">>)
       ELSE [c0 EXCEPT !.g = res.g,
                       !.comments = Append(c.comments,
                                       IF opts = "set" THEN "Tracking branch was set"
                                       ELSE IF opts = "unset" THEN "Tracking branch was unset"
                                       ELSE "Tracking branch was updated")]

\* lines 1403-1408
CloneSubmodules(c) ==
    IF c.done \/ ~(c.a.submodules /\ Truthy(c.remote_rev)) THEN c
    ELSE IF c.f = "submodule" THEN Raise(Invoke(c, "submodule"), <<"submodule failed">>)
    ELSE Invoke(c, "submodule")

\* FinishClone without lines 1432-1433: the clone's revision is not recorded
FinishCloneNoRevision(c) ==
    IF c.done THEN c ELSE
    Return([c EXCEPT !.new_rev = revision(c.g)],
           [c.ret EXCEPT !.comment = _format_comments(c.comments)])

\* lines 1410-1434
FinishClone(c) ==
    IF c.done THEN c ELSE
    LET new_rev == revision(c.g)
        r1 == [c.ret EXCEPT !.comment = _format_comments(c.comments)]
    IN Return([c EXCEPT !.new_rev = new_rev],
              IF new_rev # None
              THEN SetChange(r1, <<"revision">>, [old |-> None, new |-> new_rev])
              ELSE r1)

\* lines 1208-1434
CloneRepository(c) ==
    FinishClone(CloneSubmodules(CloneTracking(CloneReset(CloneBranch(CloneTag(
        Clone(TestClone(ClearTarget(c)))))))))

\* latest (lines 174-1434)
latest(a, test, f, g, rr) ==
    LET c == GitVersion(ResolveRev(RunCheck(Validate(Context(a, test, f, g, rr)))))
    IN IF c.done THEN c
       ELSE IF IsRepository(c) THEN UpdateRepository(c)
       ELSE CloneRepository(c)

(***************************************************************************)
(* present (lines 1437-1584): a repository exists at the path              *)
(***************************************************************************)
\* git.init: an empty repository at the path, which is no regular file
git_init(g, bare) ==
    [ok |-> g.kind # "file",
     g |-> IF g.kind = "file" THEN g
           ELSE Blank(IF bare THEN "bare" ELSE "repo")]

BareWord(bare) == IF bare THEN <<"bare ">> ELSE <<>>

\* present(name, force, bare) over the path g; f = "rm_rf": the removal fails
present(name, force, bare, test, f, g) ==
    LET ret == NewRet(name)
        isdir == g.kind \in {"emptydir", "dir", "repo", "bare"}
        run(r, ops, calls, g1, raised) ==
            [ret |-> r, ops |-> ops, calls |-> calls, g |-> g1, raised |-> raised]
        \* git.is_worktree is asked when bare is False and there is no .git
        calls == IF isdir /\ ~bare /\ g.kind # "repo"
                 THEN <<"is_worktree">> ELSE <<>>
        \* lines 1565-1584, after ops and with ret r
        init(r, ops, g1) ==
            IF test
            THEN run(_neutral_test(SetChange(r, <<"new">>, name),
                                   <<"New ">> \o BareWord(bare)
                                       \o <<"repository would be created">>),
                     ops, calls, g1, FALSE)
            ELSE LET res == git_init(g1, bare) IN
                 IF ~res.ok
                 THEN run(r, Append(ops, "init"), calls, g1, TRUE)
                 ELSE run([SetChange(r, <<"new">>, name) EXCEPT
                              !.comment = <<"Initialized ">> \o BareWord(bare)
                                              \o <<"repository in ">> \o name],
                          Append(ops, "init"), calls, res.g, FALSE)
    IN
    IF isdir /\ bare /\ g.kind = "bare" THEN run(ret, <<>>, calls, g, FALSE)
    ELSE IF isdir /\ ~bare /\ g.kind = "repo" THEN run(ret, <<>>, calls, g, FALSE)
    ELSE IF isdir /\ force
    THEN IF test
         THEN run(_neutral_test(
                      SetChange(SetChange(ret, <<"new">>, name),
                                <<"forced init">>, TRUE),
                      <<"Target directory ">> \o name
                          \o <<" exists. Since force=True, the contents of ">>
                          \o name \o <<" would be deleted, and a ">>
                          \o BareWord(bare)
                          \o <<"repository would be initialized in its place.">>),
                  <<>>, calls, g, FALSE)
         ELSE IF f = "rm_rf"
         THEN run(_fail(ret, <<"Unable to remove ">> \o name \o <<": ">>
                                 \o <<"rm_rf failed">>, <<>>),
                  <<"rm_rf">>, calls, g, FALSE)
         ELSE init(SetChange(ret, <<"forced init">>, TRUE), <<"rm_rf">>,
                   Blank("absent"))
    ELSE IF isdir /\ g.kind # "emptydir"
    THEN run(_fail(ret, <<"Target '">> \o name
                       \o <<"' exists, is non-empty, and is not a git repository. Set the 'force' option to True to remove this directory's contents and proceed with initializing a repository">>,
                   <<>>),
             <<>>, calls, g, FALSE)
    ELSE init(ret, <<>>, g)

(***************************************************************************)
(* The state machine: invocations of latest (dry-run or not) against the   *)
(* declared state, interleaved with what the world does to the remote and  *)
(* to the working copy.                                                    *)
(***************************************************************************)
\* the configuration keys there are, and a configuration that sets none
KeyEmail == <<"user.", "email">>
KeyName == <<"user.", "name">>
Keys == {KeyEmail, KeyName}
NoConfig == [k \in Keys |-> <<>>]

NoLast ==
    [valid |-> FALSE, test |-> FALSE, f |-> "none", pre |-> Blank("absent"),
     listed |-> [m |-> 0, t |-> 0, annot |-> FALSE],
     ret |-> NewRet(UrlX), ops |-> <<>>, calls |-> <<>>, trace |-> <<>>,
     failed |-> FALSE, raised |-> FALSE]

\* the parameters of latest and their defaults; name has none.  always_fetch,
\* force and remote_name are the keyword arguments of lines 372-401.  user
\* (the account the git commands run as) and depth (how much history a clone
\* downloads) are carried as given: no state kept here depends on them
DefaultArgs(name) ==
    [name |-> name, rev |-> HEAD, target |-> None, branch |-> None,
     user |-> None, force_checkout |-> FALSE, force_clone |-> FALSE,
     force_fetch |-> FALSE, force_reset |-> FALSE, submodules |-> FALSE,
     bare |-> FALSE, mirror |-> FALSE, remote |-> Origin, fetch_tags |-> TRUE,
     depth |-> None, identity |-> None,
     https_user |-> None, https_pass |-> None,
     onlyif |-> FalseV, unless |-> FalseV,
     always_fetch |-> FALSE, force |-> FALSE, remote_name |-> FalseV]

\* the state as it is declared in what follows: repository x at /srv/repo
DeclaredArgs == [DefaultArgs(UrlX) EXCEPT !.target = Target]

RemoteStates ==
    {rr \in [m : 0..NCommits, t : 0..NCommits, annot : BOOLEAN] :
        /\ rr.t # 0 => rr.m # 0
        /\ rr.t = 0 => ~rr.annot}

TypeOK ==
    /\ repo.kind \in {"absent", "emptydir", "dir", "file", "repo", "bare"}
    /\ remoteRepo \in RemoteStates
    /\ runs \in 0..MaxRuns /\ envs \in 0..MaxEnv

\* one invocation of latest
Latest(test, f) ==
    /\ runs < MaxRuns
    /\ LET c == latest(args, test, f, repo, remoteRepo) IN
         /\ repo' = c.g
         /\ last' = [valid |-> TRUE, test |-> test, f |-> f, pre |-> repo,
                     listed |-> remoteRepo,
                     ret |-> c.ret, ops |-> c.ops, calls |-> c.calls,
                     trace |-> c.trace, failed |-> c.failed, raised |-> c.raised]
    /\ runs' = runs + 1
    /\ UNCHANGED <<args, remoteRepo, faults, envs, config>>

\* somebody pushes (or force-pushes) branch m of the remote to commit c
RemotePush(c) ==
    /\ envs < MaxEnv
    /\ c # remoteRepo.m
    /\ remoteRepo' = [remoteRepo EXCEPT !.m = c]
    /\ last' = NoLast
    /\ envs' = envs + 1
    /\ UNCHANGED <<args, repo, faults, runs, config>>

\* somebody creates or moves tag t of the remote to commit c
RemoteTag(c) ==
    /\ envs < MaxEnv
    /\ remoteRepo.m # 0
    /\ c # remoteRepo.t
    /\ remoteRepo' = [remoteRepo EXCEPT !.t = c]
    /\ last' = NoLast
    /\ envs' = envs + 1
    /\ UNCHANGED <<args, repo, faults, runs, config>>

\* the user commits on the current branch of the working copy
LocalCommit(c) ==
    /\ envs < MaxEnv
    /\ repo.kind = "repo"
    /\ Parent(c) = HeadCommit(repo)
    /\ repo' = [repo EXCEPT !.heads[repo.cur] = c, !.objs = repo.objs \cup {c}]
    /\ last' = NoLast
    /\ envs' = envs + 1
    /\ UNCHANGED <<args, remoteRepo, faults, runs, config>>

\* the user edits a file of the working copy
LocalEdit ==
    /\ envs < MaxEnv
    /\ repo.kind = "repo"
    /\ ~repo.dirty
    /\ repo' = [repo EXCEPT !.dirty = TRUE]
    /\ last' = NoLast
    /\ envs' = envs + 1
    /\ UNCHANGED <<args, remoteRepo, faults, runs, config>>

\* one invocation of present for the target path, between runs of latest.
\* An invocation that leaves the path as it is (a repository of the kind is
\* there, a dry run, a refusal) is a stuttering step.  It is counted as a
\* run of a state function and as a change made to the target from outside
\* latest
Present(force, bare, test, f) ==
    /\ runs < MaxRuns
    /\ envs < MaxEnv
    /\ LET p == present(Target, force, bare, test, f, repo) IN
         /\ p.g # repo
         /\ repo' = p.g
    /\ last' = NoLast
    /\ runs' = runs + 1
    /\ envs' = envs + 1
    /\ UNCHANGED <<args, remoteRepo, faults, config>>

Next ==
    \/ \E test \in BOOLEAN, f \in {"none"} \cup faults : Latest(test, f)
    \/ \E c \in Commits : RemotePush(c)
    \/ \E c \in Commits : RemoteTag(c)
    \/ \E c \in Commits : LocalCommit(c)
    \/ LocalEdit
    \/ \E force \in BOOLEAN, bare \in BOOLEAN, test \in BOOLEAN,
          f \in {"none"} \cup (faults \cap {"rm_rf"}) :
          Present(force, bare, test, f)

\* a string of hex digits one longer than a SHA1 may be
LongHex == [i \in 1..(MaxShaLen + 1) |-> "a"]

ArgSpace ==
    {[DeclaredArgs EXCEPT !.rev = rev, !.branch = br, !.force_reset = fr,
                          !.bare = bare]
       : rev \in {HEAD, BrM, TagT, Sha(2), <<"a">>, <<"A", "1">>, BrW, LongHex},
         br \in {None, BrM, BrW}, fr \in BOOLEAN, bare \in BOOLEAN}

\* remotes at the start: empty, one commit, one tagged commit
StartRemotes ==
    {rr \in RemoteStates : rr.m \in {0, 1} /\ rr.t \in {0, 1} /\ ~rr.annot}

Start(argSpace, remoteSpace, repoSpace) ==
    /\ args \in argSpace
    /\ remoteRepo \in remoteSpace
    /\ repo \in repoSpace
    /\ last = NoLast
    /\ faults = {}
    /\ runs = 0
    /\ envs = 0
    /\ config = NoConfig

\* the collaborator operations that may fail
FaultNames ==
    {"remote_refs", "version", "rm_rf", "clone", "remote_set", "fetch",
     "checkout", "reset", "branch", "merge", "submodule"}

Init == Start(ArgSpace, StartRemotes,
              {Blank("absent"), Blank("dir"), Blank("file")})

Spec == Init /\ [][Next]_vars

\* what an earlier clone of the one-commit remote, from url, left at the target
Cloned(url, bare) ==
    git_clone(Blank("absent"), url, bare, Origin, [m |-> 1, t |-> 0, annot |-> FALSE]).g

(***************************************************************************)
(* Dry runs and real runs over every kind of target: nothing there, an     *)
(* empty or a non-empty directory, a work tree or a bare repository cloned *)
(* from another URL.                                                       *)
(***************************************************************************)
DryArgSpace ==
    {[DeclaredArgs EXCEPT !.name = n, !.rev = rev, !.branch = br,
                          !.force_clone = fc, !.force_reset = fr, !.bare = bare]
       : n \in {UrlX, UrlY}, rev \in {HEAD, TagT}, br \in {None, BrW},
         fc \in BOOLEAN, fr \in BOOLEAN, bare \in BOOLEAN}

InitDry ==
    Start(DryArgSpace, {[m |-> 1, t |-> 1, annot |-> FALSE]},
          {Blank("absent"), Blank("emptydir"), Blank("dir"),
           Cloned(UrlX, FALSE), Cloned(UrlX, TRUE)})

SpecDry == InitDry /\ [][Next]_vars

(***************************************************************************)
(* Updates of a work tree that has diverged from the remote: without       *)
(* force_reset (SpecSafe) and with it (SpecForce).  The work tree is       *)
(* cloned by the first run or was cloned earlier from another URL.         *)
(***************************************************************************)
\* how the fetch is asked for: fetch_tags, force_fetch
FetchModes ==
    {[fetch_tags |-> TRUE, force_fetch |-> FALSE],
     [fetch_tags |-> FALSE, force_fetch |-> FALSE],
     [fetch_tags |-> TRUE, force_fetch |-> TRUE]}

DivergedArgSpace(force_reset) ==
    {[DeclaredArgs EXCEPT !.rev = rev, !.branch = br, !.force_reset = force_reset,
                          !.force_checkout = fc, !.fetch_tags = fm.fetch_tags,
                          !.force_fetch = fm.force_fetch]
       : rev \in {HEAD, BrM, TagT, Sha(3)}, br \in {None, BrW},
         fc \in BOOLEAN, fm \in FetchModes}

InitSafe ==
    Start(DivergedArgSpace(FALSE), {[m |-> 1, t |-> 1, annot |-> FALSE]},
          {Blank("absent"), Cloned(UrlY, FALSE)})

SpecSafe == InitSafe /\ [][Next]_vars

InitForce ==
    Start(DivergedArgSpace(TRUE), {[m |-> 1, t |-> 1, annot |-> FALSE]},
          {Blank("absent"), Cloned(UrlY, FALSE)})

SpecForce == InitForce /\ [][Next]_vars

(***************************************************************************)
(* A work tree pinned to tag t while the tag moves on the remote.          *)
(***************************************************************************)
TagArgSpace ==
    {[DeclaredArgs EXCEPT !.rev = TagT, !.branch = br, !.force_reset = fr,
                          !.fetch_tags = ft]
       : br \in {None, BrW}, fr \in BOOLEAN, ft \in BOOLEAN}

InitTag ==
    Start(TagArgSpace, {rr \in RemoteStates : rr.m = 1 /\ rr.t = 1},
          {Blank("absent")})

SpecTag == InitTag /\ [][Next]_vars

(***************************************************************************)
(* Fast-forward updates of a work tree cloned at commit 1 of branch m: the *)
(* remote is ahead; the new commit is still to be fetched (Cloned), or was *)
(* fetched by hand and not merged (Fetched); the work tree may hold        *)
(* a second local branch w with a commit of its own (SideBranch).          *)
(***************************************************************************)
AheadRemote == [m |-> 2, t |-> 0, annot |-> FALSE]

Fetched == git_fetch(Cloned(UrlX, FALSE), Origin, FALSE, TRUE, AheadRemote).g

SideBranch ==
    [Cloned(UrlX, FALSE) EXCEPT !.heads[BrW] = 3, !.objs = @ \cup {3}]

FFArgSpace ==
    {[DeclaredArgs EXCEPT !.rev = BrM, !.branch = br, !.force_checkout = fc,
                          !.force_reset = fr]
       : br \in {None, BrM, BrW}, fc \in BOOLEAN, fr \in BOOLEAN}

InitFF == Start(FFArgSpace, {AheadRemote}, {Cloned(UrlX, FALSE), Fetched, SideBranch})

SpecFF == InitFF /\ [][Next]_vars

(***************************************************************************)
(* A work tree whose remote does not name the declared URL: it was cloned  *)
(* from another location, with or without credentials in the URL, from a   *)
(* remote that was empty, or it was initialised locally and has no remote. *)
(***************************************************************************)
EmptyRemote == [m |-> 0, t |-> 0, annot |-> FALSE]

User == <<"u">>
Pass == <<"p">>
UrlXCred == add_http_basic_auth(UrlX, User, Pass)

ClonedEmpty(url) == git_clone(Blank("absent"), url, FALSE, Origin, EmptyRemote).g

\* git init and a first commit
Initialised == [Blank("repo") EXCEPT !.heads[DefaultBranch] = 1, !.objs = {1}]

UrlArgSpace ==
    {[DeclaredArgs EXCEPT !.rev = rev, !.branch = br,
                          !.https_user = auth[1], !.https_pass = auth[2]]
       : rev \in {HEAD, BrM, TagT}, br \in {None, BrW},
         auth \in {<<None, None>>, <<User, Pass>>}}

InitUrl ==
    Start(UrlArgSpace, {EmptyRemote, [m |-> 1, t |-> 1, annot |-> FALSE]},
          {Cloned(UrlX, FALSE), Cloned(UrlXCred, FALSE), Cloned(UrlY, FALSE),
           ClonedEmpty(UrlY), Initialised})

SpecUrl == InitUrl /\ [][Next]_vars

(***************************************************************************)
(* Valid and invalid arguments over a target path that does not exist.     *)
(***************************************************************************)
RelTarget == <<"srv/repo">>

ValidArgSpace ==
    {[DeclaredArgs EXCEPT !.remote = r, !.target = t, !.rev = rev, !.bare = b,
                          !.mirror = mi, !.identity = id, !.onlyif = oi,
                          !.unless = un]
       : r \in {None, Origin}, t \in {None, Target, RelTarget},
         rev \in {HEAD, BrM}, b \in BOOLEAN, mi \in BOOLEAN,
         id \in {None, <<IdAbs>>, <<IdRel>>, <<IdSalt>>, <<IdSalt, IdRel>>,
                 <<IdSaltGone>>},
         oi \in {FalseV, CmdTrue, CmdFalse}, un \in {FalseV, CmdTrue}}

InitValid ==
    Start(ValidArgSpace, {[m |-> 1, t |-> 0, annot |-> FALSE]}, {Blank("absent")})

SpecValid == InitValid /\ [][Next]_vars

(***************************************************************************)
(* Runs in which a collaborator operation fails: over a missing target     *)
(* and over a work tree cloned from another URL.                           *)
(***************************************************************************)
FaultArgSpace ==
    {[DeclaredArgs EXCEPT !.rev = rev, !.branch = br]
       : rev \in {BrM, TagT}, br \in {None, BrW}}

InitFault ==
    /\ args \in FaultArgSpace
    /\ remoteRepo = [m |-> 1, t |-> 1, annot |-> FALSE]
    /\ repo \in {Blank("absent"), Cloned(UrlY, FALSE)}
    /\ last = NoLast
    /\ faults = FaultNames
    /\ runs = 0
    /\ envs = 0
    /\ config = NoConfig

SpecFault == InitFault /\ [][Next]_vars

(***************************************************************************)
(* Tracking branches: a rev that names a branch, a tag or a SHA1, with and *)
(* without a branch argument, over a missing target, a fresh clone and     *)
(* a work tree with a second local branch w that tracks origin/m.          *)
(***************************************************************************)
SideTracked ==
    [Cloned(UrlX, FALSE) EXCEPT !.heads[BrW] = 1,
                                !.upstream[BrW] = Origin \o Slash \o BrM]

TrackArgSpace ==
    {[DeclaredArgs EXCEPT !.rev = rev, !.branch = br]
       : rev \in {BrM, TagT, Sha(1)}, br \in {None, BrM, BrW}}

InitTrack ==
    Start(TrackArgSpace, {[m |-> 1, t |-> 1, annot |-> FALSE]},
          {Blank("absent"), Cloned(UrlX, FALSE), SideTracked})

SpecTrack == InitTrack /\ [][Next]_vars

(***************************************************************************)
(* Runs guarded by onlyif and unless commands, with and without a remote   *)
(* argument, over a missing target and over a work tree cloned from        *)
(* another URL.                                                            *)
(***************************************************************************)
SkipArgSpace ==
    {[DeclaredArgs EXCEPT !.remote = r, !.rev = rev, !.onlyif = oi, !.unless = un]
       : r \in {None, Origin}, rev \in {HEAD, BrM},
         oi \in {FalseV, CmdTrue, CmdFalse}, un \in {FalseV, CmdTrue, CmdFalse}}

InitSkip ==
    Start(SkipArgSpace, {[m |-> 1, t |-> 0, annot |-> FALSE]},
          {Blank("absent"), Cloned(UrlY, FALSE)})

SpecSkip == InitSkip /\ [][Next]_vars

(***************************************************************************)
(* Runs with and without submodules over a missing target and a fresh      *)
(* clone.                                                                  *)
(***************************************************************************)
SubArgSpace ==
    {[DeclaredArgs EXCEPT !.rev = rev, !.branch = br, !.submodules = sm]
       : rev \in {HEAD, BrM, TagT}, br \in {None, BrW}, sm \in BOOLEAN}

InitSub ==
    Start(SubArgSpace, {[m |-> 1, t |-> 1, annot |-> FALSE]},
          {Blank("absent"), Cloned(UrlX, FALSE)})

SpecSub == InitSub /\ [][Next]_vars

(***************************************************************************)
(* config_unset and config_set.  The configuration maps each key to the    *)
(* list of its values (empty: the key is not set); git.config_get_regexp   *)
(* and git.config_get(all=True) read it, git.config_unset and              *)
(* git.config_set write it.  A value is a string; a regular expression is  *)
(* a string of literal chunks, "user\\." for an escaped "user.", and ".+"  *)
(* for one or more chunks.                                                 *)
(***************************************************************************)
ValA == <<"a">>
ValB == <<"b">>
KeyAnchored == <<"^">> \o KeyEmail \o <<"$">>
KeyAny == <<"user\\.", ".+">>
AnyValue == <<".+">>

\* str.lstrip(chars) and str.rstrip(chars) for a single character
RECURSIVE lstrip(_, _)
lstrip(s, ch) == IF s # <<>> /\ Head(s) = ch THEN lstrip(Tail(s), ch) ELSE s

RECURSIVE rstrip(_, _)
rstrip(s, ch) ==
    IF s # <<>> /\ s[Len(s)] = ch THEN rstrip(SubSeq(s, 1, Len(s) - 1), ch) ELSE s

\* the regular expression p matches the whole of s
RECURSIVE re_match(_, _)
re_match(p, s) ==
    IF p = <<>> THEN s = <<>>
    ELSE IF Head(p) = ".+"
    THEN \E i \in 1..Len(s) : re_match(Tail(p), SubSeq(s, i + 1, Len(s)))
    ELSE /\ s # <<>>
         /\ Head(s) = (IF Head(p) = "user\\." THEN "user." ELSE Head(p))
         /\ re_match(Tail(p), Tail(s))

\* the values of the list that value_regex selects (None: all of them)
Matching(values, value_regex) ==
    LET sel(v) == value_regex = None \/ re_match(value_regex, v)
    IN SelectSeq(values, sel)

\* git.config_get_regexp: the keys the anchored expression matches that have
\* a selected value, each with its selected values
git_config_get_regexp(cfg, key, value_regex) ==
    LET body == SubSeq(key, 2, Len(key) - 1)
        ks == {k \in Keys : re_match(body, k) /\ Matching(cfg[k], value_regex) # <<>>}
    IN [k \in ks |-> Matching(cfg[k], value_regex)]

\* git.config_unset (git config --unset / --unset-all <key> [value_regex]):
\* the key is a name, not an expression; it fails when nothing is selected,
\* and when several values are selected without all
git_config_unset(cfg, key, value_regex, all) ==
    IF key \notin Keys THEN [ok |-> FALSE, cfg |-> cfg]
    ELSE LET sel == Matching(cfg[key], value_regex)
             keep(v) == ~(value_regex = None \/ re_match(value_regex, v))
         IN IF sel = <<>> \/ (Len(sel) > 1 /\ ~all) THEN [ok |-> FALSE, cfg |-> cfg]
            ELSE [ok |-> TRUE, cfg |-> [cfg EXCEPT ![key] = SelectSeq(cfg[key], keep)]]

\* git.config_get(all=True): the list of the key's values, None when not set
git_config_get(cfg, key) == IF key \in Keys THEN cfg[key] ELSE None

\* git.config_set: replaces the key's values by the value or by the multivar
\* list and returns the values read back
git_config_set(cfg, key, value, multivar) ==
    IF key \notin Keys THEN [ok |-> FALSE, cfg |-> cfg, post |-> None]
    ELSE LET new == IF value # None THEN <<value>> ELSE multivar
         IN [ok |-> TRUE, cfg |-> [cfg EXCEPT ![key] = new], post |-> new]

\* what a configuration state hands back: the result, the configuration it
\* leaves, the writes invoked, the reads, whether a command failed, whether
\* an exception left the function
ConfigResult(ret, cfg, ops, calls, failed, raised) ==
    [ret |-> ret, config |-> cfg, ops |-> ops, calls |-> calls,
     failed |-> failed, raised |-> raised]

\* GreedyMatches that finds no key with more than one matched value
GreedyMatchesNone(pre_matches) == {}

\* lines 1706-1709: the matched keys with more than one matched value
GreedyMatches(pre_matches) ==
    {k \in DOMAIN pre_matches : Len(pre_matches[k]) > 1}

\* the keys in the order the dict yields them
RECURSIVE KeyList(_)
KeyList(ks) ==
    IF ks = {} THEN <<>>
    ELSE LET k == CHOOSE k \in ks : TRUE IN <<k>> \o KeyList(ks \ {k})

\* lines 1751-1767: one git.config_unset call per matched key, each with the
\* name given to the state; st = [cfg, ops, failed]
RECURSIVE UnsetLoop(_, _, _, _)
UnsetLoop(keys, a, f, st) ==
    IF keys = <<>> THEN st
    ELSE LET res == git_config_unset(st.cfg, a.name, a.value_regex, a.all)
             ok == res.ok /\ f # "config_unset"
         IN UnsetLoop(Tail(keys), a, f,
                [cfg |-> IF ok THEN res.cfg ELSE st.cfg,
                 ops |-> Append(st.ops, "config_unset"),
                 failed |-> IF ok THEN st.failed ELSE Append(st.failed, Head(keys))])

\* [x for x in pre if x not in post]
NotIn(pre, post) ==
    LET gone(x) == \A i \in DOMAIN post : post[i] # x IN SelectSeq(pre, gone)

\* config_unset (lines 1587-1813)
config_unset(a, test, f, cfg) ==
    LET ret == [name |-> a.name, changes |-> <<>>, result |-> "True",
                comment |-> <<"No matching keys are set">>]
        key == <<"^">> \o rstrip(lstrip(a.name, "^"), "$") \o <<"$">>
        pre_matches == git_config_get_regexp(cfg, key, a.value_regex)
        greedy_matches == GreedyMatches(pre_matches)
        pre == IF a.value_regex = None THEN pre_matches
               ELSE git_config_get_regexp(cfg, key, None)
        st == UnsetLoop(KeyList(DOMAIN pre_matches), a, f,
                        [cfg |-> cfg, ops |-> <<>>, failed |-> <<>>])
        post == git_config_get_regexp(st.cfg, key, None)
        post_matches == IF a.value_regex = None THEN post
                        ELSE git_config_get_regexp(st.cfg, key, a.value_regex)
        changed == {k \in DOMAIN pre : NotIn(pre[k], post[k]) # <<>>}
        reads1 == <<"config_get_regexp">>
        reads2 == IF a.value_regex = None THEN reads1
                  ELSE Append(reads1, "config_get_regexp")
    IN
    IF ~a.global /\ a.repo = None
    THEN ConfigResult(_fail(ret,
             <<"Non-global config options require the 'repo' argument to be set">>,
             <<>>), cfg, <<>>, <<>>, FALSE, FALSE)
    ELSE IF DOMAIN pre_matches = {}
    THEN ConfigResult(ret, cfg, <<>>, reads1, FALSE, FALSE)
    ELSE IF ~a.all /\ greedy_matches # {}
    THEN ConfigResult(_fail(ret,
             IF a.value_regex # None
             THEN <<"Multiple values are matched by value_regex for the following keys (set 'all' to True to force removal): ">>
             ELSE <<"Multivar(s) matched by the key expression (set 'all' to True to force removal): ">>,
             <<>>), cfg, <<>>, reads1, FALSE, FALSE)
    ELSE IF test
    THEN ConfigResult(_neutral_test([ret EXCEPT !.changes = pre_matches],
                                    <<"key(s) would have value(s) unset">>),
                      cfg, <<>>, reads1, FALSE, FALSE)
    ELSE IF st.failed # <<>>
    THEN ConfigResult(_fail(ret,
             <<"Error(s) occurred unsetting values for the following keys (see the minion log for details): ">>,
             <<>>), st.cfg, st.ops, reads2, TRUE, FALSE)
    ELSE IF \E k \in DOMAIN pre : k \notin DOMAIN post
    THEN \* line 1788: post[key_name] of a key that is gone raises KeyError
         ConfigResult(ret, st.cfg, st.ops, Append(reads2, "config_get_regexp"),
                      FALSE, TRUE)
    ELSE LET r1 == [ret EXCEPT !.changes = [k \in changed |-> NotIn(pre[k], post[k])]]
             reads3 == Append(reads2, "config_get_regexp")
             reads4 == IF a.value_regex = None THEN reads3
                       ELSE Append(reads3, "config_get_regexp")
         IN IF DOMAIN post_matches # {}
            THEN ConfigResult(_fail(r1, <<"Failed to unset value(s): ">>, <<>>),
                              st.cfg, st.ops, reads4, FALSE, FALSE)
            ELSE ConfigResult([r1 EXCEPT !.comment = <<"Value(s) successfully unset">>],
                              st.cfg, st.ops, reads4, FALSE, FALSE)

\* str(list) of a list of strings
RECURSIVE ReprItems(_)
ReprItems(xs) ==
    IF xs = <<>> THEN <<>>
    ELSE <<"'">> \o Head(xs) \o <<"'">>
         \o (IF Len(xs) > 1 THEN <<", ">> ELSE <<>>) \o ReprItems(Tail(xs))

\* AlreadySet that takes the same values in another order for equal
AlreadySetAnyOrder(desired, pre) ==
    /\ pre # None
    /\ Len(desired) = Len(pre)
    /\ {desired[i] : i \in DOMAIN desired} = {pre[i] : i \in DOMAIN pre}

\* line 1966: the key has the desired values, in the desired order
AlreadySet(desired, pre) == desired = pre

\* config_set (lines 1816-2024)
config_set(a, test, f, cfg) ==
    LET ret == [name |-> a.name, changes |-> <<>>, result |-> "True",
                comment |-> <<>>]
        desired == IF a.multivar # None THEN a.multivar ELSE <<a.value>>
        value_comment == IF a.multivar # None
                         THEN <<"[">> \o ReprItems(a.multivar) \o <<"]">>
                         ELSE <<"'">> \o a.value \o <<"'">>
        quoted == <<"'">> \o a.name \o <<"'">>
        pre == git_config_get(cfg, a.name)
        res == git_config_set(cfg, a.name, a.value, a.multivar)
        post == IF f = "readback" THEN pre ELSE res.post
        r1 == IF pre # post
              THEN SetChange(ret, a.name, [old |-> pre, new |-> post])
              ELSE ret
        verb == IF pre = None THEN <<"added as ">> ELSE <<"set to ">>
        failmsg == <<"Failed to set ">> \o quoted \o <<" to ">> \o value_comment
    IN
    IF a.value # None /\ a.multivar # None
    THEN ConfigResult(_fail(ret, <<"Only one of 'value' and 'multivar' is permitted">>,
                            <<>>), cfg, <<>>, <<>>, FALSE, FALSE)
    ELSE IF ~a.global /\ a.repo = None
    THEN ConfigResult(_fail(ret,
             <<"Non-global config options require the 'repo' argument to be set">>,
             <<>>), cfg, <<>>, <<>>, FALSE, FALSE)
    ELSE IF a.value = None /\ a.multivar = None
    THEN \* line 1966: desired is not bound, UnboundLocalError
         ConfigResult(ret, cfg, <<>>, <<"config_get">>, FALSE, TRUE)
    ELSE IF AlreadySet(desired, pre)
    THEN ConfigResult([ret EXCEPT !.comment = quoted \o <<" is already set to ">>
                                              \o value_comment],
                      cfg, <<>>, <<"config_get">>, FALSE, FALSE)
    ELSE IF test
    THEN ConfigResult(_neutral_test(
                          [ret EXCEPT !.changes = (<<"old">> :> pre)
                                                  @@ (<<"new">> :> desired)],
                          quoted \o <<" would be ">> \o verb \o value_comment),
                      cfg, <<>>, <<"config_get">>, FALSE, FALSE)
    ELSE IF f = "config_set" \/ ~res.ok
    THEN ConfigResult(_fail(ret, failmsg \o <<": ">>, <<>>),
                      cfg, <<"config_set">>, <<"config_get">>, TRUE, FALSE)
    ELSE IF post # desired
    THEN ConfigResult(_fail(r1, failmsg, <<>>),
                      IF f = "readback" THEN cfg ELSE res.cfg,
                      <<"config_set">>, <<"config_get">>, FALSE, FALSE)
    ELSE ConfigResult([r1 EXCEPT !.comment = quoted \o <<" was ">> \o verb
                                             \o value_comment],
                      res.cfg, <<"config_set">>, <<"config_get">>, FALSE, FALSE)

\* one invocation of config_set
ConfigSet(test, f) ==
    /\ runs < MaxRuns
    /\ args.fn = "config_set"
    /\ LET c == config_set(args, test, f, config) IN
         /\ config' = c.config
         /\ last' = [valid |-> TRUE, test |-> test, f |-> f, pre |-> config,
                     ret |-> c.ret, ops |-> c.ops, calls |-> c.calls,
                     failed |-> c.failed, raised |-> c.raised]
    /\ runs' = runs + 1
    /\ UNCHANGED <<args, remoteRepo, repo, faults, envs>>

\* one invocation of config_unset
ConfigUnset(test, f) ==
    /\ runs < MaxRuns
    /\ args.fn = "config_unset"
    /\ LET c == config_unset(args, test, f, config) IN
         /\ config' = c.config
         /\ last' = [valid |-> TRUE, test |-> test, f |-> f, pre |-> config,
                     ret |-> c.ret, ops |-> c.ops, calls |-> c.calls,
                     failed |-> c.failed, raised |-> c.raised]
    /\ runs' = runs + 1
    /\ UNCHANGED <<args, remoteRepo, repo, faults, envs>>

\* the value lists a user gives a key by hand
EditValues == {<<>>, <<ValA>>, <<ValA, ValB>>}

\* the user edits the configuration by hand
ConfigEdit(k, values) ==
    /\ envs < MaxEnv
    /\ config[k] # values
    /\ config' = [config EXCEPT ![k] = values]
    /\ last' = NoLast
    /\ envs' = envs + 1
    /\ UNCHANGED <<args, remoteRepo, repo, faults, runs>>

NextConfig ==
    \/ \E test \in BOOLEAN, f \in {"none"} \cup faults : ConfigSet(test, f)
    \/ \E test \in BOOLEAN, f \in {"none"} \cup faults : ConfigUnset(test, f)
    \/ \E k \in Keys, values \in EditValues : ConfigEdit(k, values)

ConfigSetArgs ==
    {[fn |-> "config_set", name |-> n, value |-> v, multivar |-> mv,
      repo |-> r, global |-> FALSE]
       : n \in Keys, v \in {None, ValA}, r \in {None, Target},
         mv \in {None, <<ValA, ValB>>, <<ValB, ValA>>}}

ConfigUnsetArgs ==
    {[fn |-> "config_unset", name |-> n, value_regex |-> vre, all |-> al,
      repo |-> r, global |-> FALSE]
       : n \in {KeyEmail, KeyAnchored, KeyAny}, vre \in {None, ValA, AnyValue},
         al \in BOOLEAN, r \in {None, Target}}

\* the operations of the configuration collaborator that may fail, and the
\* write whose effect the read-back does not show
ConfigFaults == {"config_set", "config_unset", "readback"}

StartConfigs ==
    {NoConfig,
     [NoConfig EXCEPT ![KeyEmail] = <<ValA>>],
     [NoConfig EXCEPT ![KeyEmail] = <<ValB, ValA>>],
     [NoConfig EXCEPT ![KeyEmail] = <<ValA, ValA>>, ![KeyName] = <<ValA>>]}

InitConfig ==
    /\ args \in ConfigSetArgs \cup ConfigUnsetArgs
    /\ remoteRepo = EmptyRemote
    /\ repo = Initialised
    /\ last = NoLast
    /\ faults = ConfigFaults
    /\ runs = 0
    /\ envs = 0
    /\ config \in StartConfigs

SpecConfig == InitConfig /\ [][NextConfig]_vars

(***************************************************************************)
(* The resolution of rev, applied to snapshots of the remote's refs in     *)
(* which a name is, or is not, a branch, an annotated tag and              *)
(* a lightweight tag at once.                                              *)
(***************************************************************************)
\* revs asked for: HEAD, a branch-like name, a name that reads as hex, the
\* same in upper case, an over-long hex string, a name that is neither
RevInputs == {HEAD, BrM, <<"a", "1">>, <<"A", "1">>, LongHex, <<"z">>}

\* names the remote may use for a branch or a tag
RefNames == {BrM, <<"a", "1">>}

\* a snapshot: HEAD, and for one name the branch, the peeled tag, the tag
RefSnapshot(n, hd, br, pl, tg) ==
    (IF hd THEN (HEAD :> Sha(1)) ELSE <<>>)
    @@ (IF br THEN ((<<"refs/heads/">> \o n) :> Sha(2)) ELSE <<>>)
    @@ (IF pl THEN ((<<"refs/tags/">> \o n \o <<"^{}">>) :> Sha(3)) ELSE <<>>)
    @@ (IF tg THEN ((<<"refs/tags/">> \o n) :> TagObjSha(3)) ELSE <<>>)

\* lines 525-576 applied to a rev and a snapshot
ResolveStep(rev, n, hd, br, pl, tg) ==
    /\ runs < MaxRuns
    /\ LET refs == RefSnapshot(n, hd, br, pl, tg)
           c == ResolveRefs(Context([args EXCEPT !.rev = rev], FALSE, "none",
                                    repo, remoteRepo), refs)
       IN last' = [valid |-> TRUE, rev |-> rev, refs |-> refs,
                   remote_rev |-> c.remote_rev,
                   remote_rev_type |-> c.remote_rev_type,
                   desired_upstream |-> c.desired_upstream,
                   resolved |-> c.rev, done |-> c.done, ret |-> c.ret]
    /\ runs' = runs + 1
    /\ UNCHANGED <<args, remoteRepo, repo, faults, envs, config>>

NextResolve ==
    \E rev \in RevInputs, n \in RefNames, hd \in BOOLEAN, br \in BOOLEAN,
       pl \in BOOLEAN, tg \in BOOLEAN : ResolveStep(rev, n, hd, br, pl, tg)

InitResolve == Start({DeclaredArgs}, {EmptyRemote}, {Blank("absent")})

SpecResolve == InitResolve /\ [][NextResolve]_vars

(***************************************************************************)
(* Updates of a work tree in which every step may be due: the remote URL   *)
(* differs or not, the remote moves on, the work tree gets commits of its  *)
(* own, a side branch is asked for, with and without force_reset and       *)
(* submodules.                                                             *)
(***************************************************************************)
OrderArgSpace ==
    {[DeclaredArgs EXCEPT !.rev = rev, !.branch = br, !.force_reset = fr,
                          !.submodules = sm]
       : rev \in {BrM, TagT}, br \in {None, BrW}, fr \in BOOLEAN, sm \in BOOLEAN}

InitOrder ==
    Start(OrderArgSpace, {[m |-> 1, t |-> 1, annot |-> FALSE]},
          {Cloned(UrlX, FALSE), Cloned(UrlY, FALSE)})

SpecOrder == InitOrder /\ [][Next]_vars

(***************************************************************************)
(* A work tree that may already be at the revision asked for: rev is the   *)
(* remote's branch, a full SHA1, or a SHA1 prefix that two commits share;  *)
(* the remote's newer commit is fetched or not, and the work tree may get  *)
(* a commit of its own with the same prefix.                               *)
(***************************************************************************)
\* a SHA1 prefix shared by commits 2 and 3
ShortB == <<"b">>

TieArgSpace ==
    {[DeclaredArgs EXCEPT !.rev = rev, !.force_reset = fr]
       : rev \in {BrM, Sha(2), Sha(3), ShortB}, fr \in BOOLEAN}

InitTie == Start(TieArgSpace, {AheadRemote}, {Cloned(UrlX, FALSE), Fetched})

SpecTie == InitTie /\ [][Next]_vars

(***************************************************************************)
(* Updates of a work tree cloned from another URL in which the fetch or    *)
(* the checkout may fail after the remote URL was set.                     *)
(***************************************************************************)
RollbackFaults == {"fetch", "checkout"}

InitRollback ==
    /\ args \in FaultArgSpace
    /\ remoteRepo = [m |-> 1, t |-> 1, annot |-> FALSE]
    /\ repo = Cloned(UrlY, FALSE)
    /\ last = NoLast
    /\ faults = RollbackFaults
    /\ runs = 0
    /\ envs = 0
    /\ config = NoConfig

SpecRollback == InitRollback /\ [][Next]_vars

(***************************************************************************)
(* Runs during which the remote moves: branch m is pushed after latest has *)
(* listed the remote's refs (line 510) and before it fetches or clones.    *)
(***************************************************************************)
\* latest, the remote being rr when its refs are listed and later afterwards
latestRacing(a, test, f, g, rr, later) ==
    LET c0 == GitVersion(ResolveRev(RunCheck(Validate(Context(a, test, f, g, rr)))))
        c == [c0 EXCEPT !.rr = later]
    IN IF c.done THEN c
       ELSE IF IsRepository(c) THEN UpdateRepository(c)
       ELSE CloneRepository(c)

\* a real run of latest by whose fetch branch m of the remote is at commit k:
\* somebody pushed it there during the run, or it was there already
LatestRacing(k) ==
    /\ runs < MaxRuns
    /\ k # remoteRepo.m => envs < MaxEnv
    /\ LET later == [remoteRepo EXCEPT !.m = k]
           c == latestRacing(args, FALSE, "none", repo, remoteRepo, later)
       IN /\ repo' = c.g
          /\ remoteRepo' = later
          /\ last' = [valid |-> TRUE, test |-> FALSE, f |-> "none", pre |-> repo,
                      listed |-> remoteRepo,
                      ret |-> c.ret, ops |-> c.ops, calls |-> c.calls,
                      trace |-> c.trace, failed |-> c.failed, raised |-> c.raised]
    /\ runs' = runs + 1
    /\ envs' = IF k # remoteRepo.m THEN envs + 1 ELSE envs
    /\ UNCHANGED <<args, faults, config>>

NextRace ==
    \/ \E k \in Commits : LatestRacing(k)
    \/ \E c \in Commits : RemotePush(c)
    \/ \E c \in Commits : RemoteTag(c)
    \/ \E c \in Commits : LocalCommit(c)
    \/ LocalEdit
    \/ \E force \in BOOLEAN, bare \in BOOLEAN, test \in BOOLEAN :
          Present(force, bare, test, "none")

RaceArgSpace ==
    {[DeclaredArgs EXCEPT !.rev = rev, !.branch = br, !.force_reset = fr]
       : rev \in {HEAD, BrM, <<"a">>}, br \in {None, BrW}, fr \in BOOLEAN}

InitRace ==
    Start(RaceArgSpace, {[m |-> 1, t |-> 1, annot |-> FALSE]},
          {Cloned(UrlX, FALSE), ClonedEmpty(UrlX)})

SpecRace == InitRace /\ [][NextRace]_vars

(***************************************************************************)
(* A work tree pinned to tag t that was cloned when branch m and tag t of  *)
(* the remote were at commit 1; the remote has since moved both to commit  *)
(* 4, a grandchild of commit 1 through commit 2.                           *)
(***************************************************************************)
TagClone ==
    git_clone(Blank("absent"), UrlX, FALSE, Origin, [m |-> 1, t |-> 1, annot |-> FALSE]).g

MovedTagRemote == [m |-> 4, t |-> 4, annot |-> FALSE]

StaleTagArgSpace ==
    {[DeclaredArgs EXCEPT !.rev = TagT, !.branch = br, !.fetch_tags = ft,
                          !.force_checkout = fc]
       : br \in {None, BrW}, ft \in BOOLEAN, fc \in BOOLEAN}

InitStaleTag == Start(StaleTagArgSpace, {MovedTagRemote}, {TagClone})

SpecStaleTag == InitStaleTag /\ [][Next]_vars

(***************************************************************************)
(* Properties of latest.  `last' records the latest invocation: the        *)
(* repository it started from (last.pre), what it returned (last.ret) and  *)
(* the mutating operations it invoked (last.ops).  The remote has not      *)
(* changed since while last.valid holds.                                   *)
(***************************************************************************)
OpsOf(l) == {l.ops[i] : i \in DOMAIN l.ops}

RealRun == last.valid /\ ~last.test

\* the declared rev names this commit of the remote (0: none)
WantedCommit ==
    IF args.rev \in {HEAD, BrM} THEN remoteRepo.m
    ELSE IF args.rev = TagT THEN remoteRepo.t
    ELSE IF Len(args.rev) <= MaxShaLen /\ \A i \in DOMAIN args.rev : args.rev[i] \in hexdigits
    THEN LET cand == {c \in Commits : startswith(Sha(c), lower(args.rev))}
         IN IF Cardinality(cand) = 1 THEN CHOOSE c \in cand : TRUE ELSE 0
    ELSE 0

\* the commit a merge or reset would start from: the wanted local branch
\* when it exists, the branch checked out otherwise
BaseCommit(g) ==
    IF args.branch # None /\ args.branch # current_branch(g) /\ g.heads[args.branch] # 0
    THEN g.heads[args.branch]
    ELSE HeadCommit(g)

\* the run started from a work tree whose base has diverged from the remote
Diverged ==
    /\ last.valid
    /\ last.pre.kind = "repo" /\ ~args.bare /\ ~args.mirror
    /\ WantedCommit # 0 /\ BaseCommit(last.pre) # 0
    /\ ~IsAncestor(BaseCommit(last.pre), WantedCommit)

\* the wanted commit, and the ref the run reads it from, were there already
FoundLocally ==
    /\ WantedCommit \in last.pre.objs
    /\ args.rev = BrM =>
          /\ last.pre.remotes[args.remote] # NoUrl
          /\ last.pre.rtrack[args.remote][BrM] = WantedCommit
    /\ args.rev = TagT => last.pre.tags[TagT] # 0

\* the run had to switch branches over uncommitted changes it may not discard
BlockedSwitch ==
    /\ args.branch # None /\ args.branch # current_branch(last.pre)
    /\ last.pre.dirty /\ ~args.force_checkout

HeadUnmoved == repo.heads = last.pre.heads /\ repo.cur = last.pre.cur

UpToDateComment == <<"Repository ">> \o args.target \o <<" is up-to-date">>

\* a real run that succeeded, immediately followed by a real run
RealAfterReal ==
    /\ last.valid /\ ~last.test /\ last.ret.result = "True"
    /\ last'.valid /\ ~last'.test /\ runs' = runs + 1

\* a dry run immediately followed by a real run, whose commands all succeed,
\* from the state the dry run started from
DryThenReal ==
    /\ last.valid /\ last.test
    /\ last'.valid /\ ~last'.test /\ runs' = runs + 1
    /\ last'.pre = last.pre /\ ~last'.failed

\* C1: after a successful real run, an immediately following real run with the
\* same arguments and an unchanged remote returns True, no changes and the
\* up-to-date comment, for every desired state (bare and mirror included).
Idempotence ==
    [][RealAfterReal =>
          /\ last'.ret.result = "True"
          /\ last'.ret.changes = <<>>
          /\ last'.ret.comment = UpToDateComment]_vars

\* C2: the changes a dry run returns equal the changes the real run from the
\* same state returns.
DryRunFidelity ==
    [][DryThenReal => last'.ret.changes = last.ret.changes]_vars

\* C3: a dry run invokes no mutating operation and leaves the target as it
\* found it, whatever the target holds.
DryRunNeverMutates ==
    (last.valid /\ last.test) => (last.ops = <<>> /\ repo = last.pre)

\* a dry run over a work tree that reported the changes a real run would make
DryRunOverWorkTree ==
    /\ last.valid /\ last.test
    /\ last.pre.kind = "repo"
    /\ last.ret.result = "None"
    /\ HasChange(last.ret, <<"revision">>)

\* C4: a dry run fails exactly when the real run from the same state fails.
DryRunDecision ==
    [][DryThenReal =>
          ((last.ret.result = "False") <=> (last'.ret.result = "False"))]_vars

\* C5 as stated: with a diverged base and force_reset False, latest fails and
\* invokes no mutating operation at all.
FastForwardSafetyNoOps ==
    (Diverged /\ ~args.force_reset /\ ~last.test) =>
        (last.ret.result = "False" /\ last.ops = <<>>)

\* C5: with a diverged base and force_reset False, a real run fails and
\* invokes nothing but remote_set and fetch, and not even these when the
\* wanted commit was found locally.
FastForwardSafety ==
    (Diverged /\ ~args.force_reset /\ ~last.test) =>
        /\ last.ret.result = "False"
        /\ OpsOf(last) \subseteq {"remote_set", "fetch"}
        /\ FoundLocally => last.ops = <<>>

\* a diverged update that was refused only after the remote had been fetched
RefusedAfterFetch ==
    /\ Diverged /\ ~args.force_reset /\ ~last.test
    /\ ~last.failed
    /\ "fetch" \in OpsOf(last)
    /\ last.ret.result = "False"

\* C6 as stated: with a diverged base and force_reset True, a real run whose
\* commands all succeed ends on the remote revision, returns True and records
\* the forced update.
ForcedResetAlways ==
    (Diverged /\ args.force_reset /\ ~last.test /\ ~last.failed) =>
        /\ HeadCommit(repo) = WantedCommit
        /\ last.ret.result = "True"
        /\ HasChange(last.ret, <<"forced update">>)

\* C6: the same, unless the run has to switch branches over uncommitted
\* changes and force_checkout is False: then it fails before any checkout
\* or reset.
ForcedReset ==
    (Diverged /\ args.force_reset /\ ~last.test /\ ~last.failed) =>
        IF BlockedSwitch
        THEN /\ last.ret.result = "False"
             /\ OpsOf(last) \cap {"checkout", "reset"} = {}
        ELSE /\ HeadCommit(repo) = WantedCommit
             /\ last.ret.result = "True"
             /\ HasChange(last.ret, <<"forced update">>)
             /\ last.ret.changes[<<"forced update">>] = TRUE

\* a forced update that hard-reset the work tree to the remote revision
ForcedResetDone ==
    /\ Diverged /\ args.force_reset /\ ~last.test
    /\ "reset" \in OpsOf(last)
    /\ last.ret.result = "True"
    /\ HeadCommit(repo) = WantedCommit
    /\ HeadCommit(last.pre) # WantedCommit

\* the local tag and the tag the remote advertises name different commits
TagMovedUpstream ==
    /\ last.valid
    /\ last.pre.kind = "repo"
    /\ args.rev = TagT
    /\ last.pre.tags[TagT] # 0 /\ remoteRepo.t # 0
    /\ last.pre.tags[TagT] # remoteRepo.t

\* C7: when the tag has moved upstream and force_reset is False, a real run
\* fails and HEAD is not moved.
TagPinning ==
    (TagMovedUpstream /\ ~args.force_reset /\ ~last.test) =>
        (last.ret.result = "False" /\ HeadUnmoved)

\* C8: when the tag has moved upstream and force_reset is True, a real run
\* whose commands all succeed ends on the tag's new commit and returns True.
TagPinningForced ==
    (TagMovedUpstream /\ args.force_reset /\ ~last.test /\ ~last.failed) =>
        (HeadCommit(repo) = remoteRepo.t /\ last.ret.result = "True")

NoRevisionComment ==
    <<"No revision matching '">> \o args.rev
        \o <<"' exists in the remote repository">>

EmptyRemoteRun ==
    /\ last.valid
    /\ remoteRepo.m = 0 /\ remoteRepo.t = 0
    /\ args.rev # HEAD

\* C9 as stated: against an empty remote every rev other than HEAD fails with
\* the no-revision error before anything is invoked.
EmptyRemoteAnyRev ==
    EmptyRemoteRun =>
        /\ last.ret.result = "False"
        /\ last.ret.comment = NoRevisionComment
        /\ last.ops = <<>>

IsHexRev(rev) ==
    Len(rev) <= MaxShaLen /\ \A i \in DOMAIN rev : rev[i] \in hexdigits

\* C9: against an empty remote a rev other than HEAD that cannot be a SHA1
\* (not a string of at most 40 hex digits), asked of a repository that is
\* neither bare nor a mirror and of a target that is no regular file, fails
\* with the no-revision error before anything is invoked.
EmptyRemoteNamedRev ==
    (/\ EmptyRemoteRun /\ ~IsHexRev(args.rev)
     /\ ~args.bare /\ ~args.mirror /\ last.pre.kind # "file") =>
        /\ last.ret.result = "False"
        /\ last.ret.comment = NoRevisionComment
        /\ last.ops = <<>>
        /\ repo = last.pre

\* a real run asked for a branch of an empty remote
EmptyRemoteRefused ==
    /\ EmptyRemoteRun /\ ~last.test
    /\ args.rev = BrM /\ ~args.bare
    /\ last.ret.comment = NoRevisionComment

\* C10: a real run over an existing bare repository, bare or mirror set,
\* invokes exactly one fetch and nothing else and returns True.
BareOnlyFetched ==
    (RealRun /\ last.pre.kind = "bare" /\ (args.bare \/ args.mirror)) =>
        (last.ops = <<"fetch">> /\ last.ret.result = "True")

\* how often the run invoked the operation
CountOp(l, op) == Cardinality({i \in DOMAIN l.ops : l.ops[i] = op})

\* a real run with rev HEAD over a target path that does not exist
FreshCloneRun ==
    RealRun /\ last.pre.kind = "absent" /\ args.rev = HEAD

\* C11 as stated: a real run with rev HEAD over a missing target clones exactly
\* once, returns True, and its changes are exactly {new: '<url> => <target>'}.
FreshCloneOnlyNew ==
    FreshCloneRun =>
        /\ CountOp(last, "clone") = 1
        /\ last.ret.result = "True"
        /\ last.ret.changes = (NewKey :> NewValue(args))

\* C11: a real run with rev HEAD over a missing target clones exactly once,
\* returns True, and its changes are {new: '<url> => <target>'} plus, when the
\* clone has a HEAD revision, revision {old: None, new: that revision}.
FreshClone ==
    FreshCloneRun =>
        /\ CountOp(last, "clone") = 1
        /\ last.ret.result = "True"
        /\ last.ret.changes =
              IF revision(repo) = None THEN (NewKey :> NewValue(args))
              ELSE (<<"revision">> :> [old |-> None, new |-> revision(repo)])
                   @@ (NewKey :> NewValue(args))

\* a fresh clone of a remote that has a commit
FreshCloneDone ==
    /\ FreshCloneRun /\ ~args.bare
    /\ remoteRepo.m # 0 /\ HeadCommit(repo) = remoteRepo.m
    /\ HasChange(last.ret, <<"revision">>)

\* a real run over a work tree whose HEAD, on a branch, is a strict ancestor of
\* the remote branch named by rev
FastForwardRun ==
    /\ RealRun /\ last.pre.kind = "repo" /\ args.rev = BrM
    /\ current_branch(last.pre) # None
    /\ remoteRepo.m # 0 /\ HeadCommit(last.pre) # remoteRepo.m
    /\ IsAncestor(HeadCommit(last.pre), remoteRepo.m)

\* C12 as stated: local HEAD at commit A on a branch, the remote branch named
\* by rev at B, A a strict ancestor of B: a real run returns True with
\* changes.revision = {old: A, new: B} and no forced-update entry.
FastForwardUpdateAlways ==
    FastForwardRun =>
        /\ last.ret.result = "True"
        /\ HasChange(last.ret, <<"revision">>)
        /\ last.ret.changes[<<"revision">>] =
              [old |-> revision(last.pre), new |-> Sha(remoteRepo.m)]
        /\ ~HasChange(last.ret, <<"forced update">>)

\* C12: local HEAD at commit A on a branch, the remote branch named by rev at
\* B, A a strict ancestor of B: a real run whose git commands all succeed,
\* and that need not leave the branch checked out for one that has diverged
\* from B, nor switch branches over uncommitted changes it may not discard,
\* returns True with changes.revision = {old: A, new: B} and no forced-update
\* entry, and leaves HEAD at B, whether B was fetched before the run or by it.
FastForwardUpdate ==
    (FastForwardRun /\ ~last.failed /\ ~BlockedSwitch
        /\ IsAncestor(BaseCommit(last.pre), remoteRepo.m)) =>
        /\ last.ret.result = "True"
        /\ HasChange(last.ret, <<"revision">>)
        /\ last.ret.changes[<<"revision">>] =
              [old |-> revision(last.pre), new |-> Sha(remoteRepo.m)]
        /\ ~HasChange(last.ret, <<"forced update">>)
        /\ HeadCommit(repo) = remoteRepo.m

\* a fast-forward to a commit that was fetched before the run
FastForwardedWithoutFetch ==
    /\ FastForwardRun /\ last.ret.result = "True"
    /\ remoteRepo.m \in last.pre.objs
    /\ "fetch" \notin OpsOf(last) /\ "merge" \in OpsOf(last)
    /\ HeadCommit(repo) = remoteRepo.m

\* the URL the remote named by the remote argument had before the run
\* (NoUrl: no such remote)
UrlBefore == last.pre.remotes[args.remote]

\* a real run over a work tree whose remote names another location than the
\* declared one, or has no such remote
UrlDriftRun ==
    /\ RealRun /\ last.pre.kind = "repo" /\ ~args.bare /\ ~args.mirror
    /\ redact_http_basic_auth(UrlBefore) # redacted_fetch_url(args)

\* C13: when the remote's fetch URL differs from the declared URL (or there is
\* no such remote), a real run over an existing work tree invokes no fetch,
\* checkout, reset or merge before it has set the remote URL, a run that
\* succeeds has set it, and a run that set it records
\* remotes/<remote> = {old, new} in changes; for every resolved revision, an
\* empty remote included.
RemoteUrlDrift ==
    UrlDriftRun =>
        /\ \A i \in DOMAIN last.ops :
              last.ops[i] \in {"fetch", "checkout", "reset", "merge"} =>
                 \E j \in 1..(i - 1) : last.ops[j] = "remote_set"
        /\ last.ret.result = "True" => "remote_set" \in OpsOf(last)
        /\ "remote_set" \in OpsOf(last) =>
              /\ repo.remotes[args.remote] = desired_fetch_url(args)
              /\ HasChange(last.ret, RemotesKey(args))
              /\ last.ret.changes[RemotesKey(args)] =
                    [old |-> redact_http_basic_auth(UrlBefore),
                     new |-> redacted_fetch_url(args)]

\* a run over a work tree whose remote names the declared location, with or
\* without credentials in either URL
SameLocationRun ==
    /\ last.valid /\ last.pre.kind = "repo" /\ ~args.bare /\ ~args.mirror
    /\ UrlBefore # NoUrl
    /\ UrlBefore.scheme = args.name.scheme /\ UrlBefore.loc = args.name.loc

\* C14: URLs that differ in their credentials only are equal for latest: a run
\* over a work tree whose remote names the declared location, with or without
\* credentials in the existing or in the declared URL, neither sets the
\* remote URL nor reports a change of it.
CredentialsIgnored ==
    SameLocationRun =>
        /\ "remote_set" \notin OpsOf(last)
        /\ repo.remotes[args.remote] = UrlBefore
        /\ ~HasChange(last.ret, RemotesKey(args))

\* the arguments are invalid: no remote name, no target, a target that is not
\* absolute, bare or mirror with a rev other than HEAD, an identity path that
\* is neither absolute nor a salt:// URL
InvalidInput ==
    \/ args.remote = None
    \/ args.target = None
    \/ ~isabs(args.target)
    \/ args.rev # HEAD /\ (args.bare \/ args.mirror)
    \/ /\ args.identity # None
       /\ \E i \in DOMAIN args.identity :
             /\ ~isabs(args.identity[i])
             /\ \A j \in DOMAIN args.identity[i] : args.identity[i][j] # "salt://"

\* C15: a run with invalid arguments returns False and has called nothing: no
\* identity file is cached, no onlyif or unless command is run, the remote's
\* refs are not queried, no git command is invoked, the target is untouched.
ValidationNoSideEffects ==
    (last.valid /\ InvalidInput) =>
        /\ last.ret.result = "False"
        /\ last.calls = <<>>
        /\ last.ops = <<>>
        /\ repo = last.pre

\* C16: every invocation returns the structure {name, result, comment,
\* changes}, also when a collaborator operation fails, and no exception
\* leaves latest.
StructuredResult ==
    last.valid =>
        /\ ~last.raised
        /\ {"name", "result", "comment", "changes"} \subseteq DOMAIN last.ret
        /\ last.ret.result \in {"True", "False", "None"}

ChangesAlreadyMade == "\n\nChanges already made: "

\* C17: a real run that returns False after it has changed the repository
\* (remote URL set, fetch, checkout, reset, tracking change, clone) stops at
\* the operation that failed, and its comment lists the changes already made.
PartialMutationReported ==
    (RealRun /\ ~last.raised /\ last.ret.result = "False" /\ repo # last.pre) =>
        /\ \E i \in DOMAIN last.ret.comment :
              last.ret.comment[i] = ChangesAlreadyMade
        /\ last.f \in OpsOf(last) => last.ops[Len(last.ops)] = last.f

\* what rev resolved to on the remote
ResolvedType ==
    IF args.rev = HEAD THEN "head"
    ELSE IF args.rev = BrM /\ remoteRepo.m # 0 THEN "branch"
    ELSE IF args.rev = TagT /\ remoteRepo.t # 0 THEN "tag"
    ELSE IF IsHexRev(args.rev) THEN "sha1"
    ELSE "none"

\* a real run that returned True and left a work tree
SuccessfulRun ==
    /\ RealRun /\ last.ret.result = "True"
    /\ repo.kind = "repo" /\ ~args.bare /\ ~args.mirror
    /\ "cmd.retcode" \notin {last.calls[i] : i \in DOMAIN last.calls}

\* C18: after a real run that returned True over a work tree, the branch
\* checked out tracks <remote>/<rev> when rev resolved to a branch of the
\* remote and has no tracking branch when rev resolved to a tag or a SHA1,
\* also when the run switched to or created the branch named by the branch
\* argument.
TrackingEnsured ==
    SuccessfulRun =>
        /\ ResolvedType = "branch" =>
              repo.upstream[repo.cur] = args.remote \o Slash \o args.rev
        /\ ResolvedType \in {"tag", "sha1"} => repo.upstream[repo.cur] = None

\* the run switched to the local branch w, which tracked origin/m, for a tag,
\* and left w without a tracking branch
TrackingUnsetOnSwitch ==
    /\ SuccessfulRun /\ ResolvedType = "tag"
    /\ args.branch = BrW /\ last.pre.cur # BrW
    /\ last.pre.upstream[BrW] # None
    /\ repo.cur = BrW /\ repo.upstream[BrW] = None

\* C19: with rev HEAD no run, real or dry, over a missing target or an
\* existing repository, invokes the tracking-branch operation or records an
\* upstream entry in changes.
TrackingNotManagedForHead ==
    (last.valid /\ args.rev = HEAD) =>
        /\ "branch" \notin OpsOf(last)
        /\ ~HasChange(last.ret, <<"upstream">>)

\* a real run with rev HEAD updated a work tree whose branch has a tracking
\* branch and left the tracking as it was
HeadRunKeepsUpstream ==
    /\ RealRun /\ args.rev = HEAD /\ last.ret.result = "True"
    /\ last.pre.kind = "repo" /\ last.pre.upstream[last.pre.cur] # None
    /\ "reset" \in OpsOf(last) /\ HeadCommit(repo) # HeadCommit(last.pre)
    /\ repo.upstream = last.pre.upstream

\* _uptodate puts the actions of the run under this heading
ChangesMade == "\n\nChanges made: "

\* C20: a dry run returns None exactly when its changes are not empty, and it
\* returns True with empty changes only when it predicts no mutating action,
\* a fetch included.
DryRunResult ==
    (last.valid /\ last.test) =>
        /\ last.ret.result = "None" <=> last.ret.changes # <<>>
        /\ (last.ret.result = "True" /\ last.ret.changes = <<>>) =>
              \A i \in DOMAIN last.ret.comment :
                 last.ret.comment[i] # ChangesMade

\* how often the run called the collaborator
CountCall(l, op) == Cardinality({i \in DOMAIN l.calls : l.calls[i] = op})

\* the onlyif command is given and exits non-zero
OnlyifFails == Truthy(args.onlyif) /\ retcode(args.onlyif) # 0

\* the unless command is given and exits zero
UnlessSucceeds == Truthy(args.unless) /\ retcode(args.unless) = 0

\* the run skipped the state: True, no changes, nothing asked of the remote,
\* no git operation, the target as it was
Skipped ==
    /\ last.ret.result = "True"
    /\ last.ret.changes = <<>>
    /\ last.ops = <<>>
    /\ CountCall(last, "remote_refs") = 0
    /\ repo = last.pre

\* the arguments pass the checks of lines 403-489
PassesValidation ==
    /\ ~InvalidInput
    /\ last.pre.kind # "file"
    /\ args.https_user # None => args.name.scheme = "https"
    /\ args.identity # None =>
          \A i \in DOMAIN args.identity :
             isabs(args.identity[i]) \/ args.identity[i] = IdSalt

\* C21 as stated: when onlyif is given and exits non-zero, or unless is given
\* and exits zero, the run returns True with empty changes and invokes no git
\* operation; onlyif is run first, and unless is not run when onlyif skips.
PreconditionSkipAlways ==
    (last.valid /\ (OnlyifFails \/ UnlessSucceeds)) =>
        /\ Skipped
        /\ OnlyifFails => CountCall(last, "cmd.retcode") = 1

\* C21: for arguments that pass the argument checks, when onlyif is given and
\* exits non-zero, or unless is given and exits zero, the run (dry or real)
\* returns True with empty changes and invokes no git operation, the listing
\* of the remote's refs included; onlyif is run first, and unless is not run
\* when onlyif skips.
PreconditionSkip ==
    (last.valid /\ PassesValidation /\ (OnlyifFails \/ UnlessSucceeds)) =>
        /\ Skipped
        /\ OnlyifFails =>
              /\ CountCall(last, "cmd.retcode") = 1
              /\ last.ret.comment = <<"onlyif execution failed">>
        /\ ~OnlyifFails =>
              /\ CountCall(last, "cmd.retcode") =
                    (IF Truthy(args.onlyif) THEN 2 ELSE 1)
              /\ last.ret.comment = <<"unless execution succeeded">>

\* a run over a work tree cloned from another URL that the onlyif command
\* skipped, the unless command given too
SkippedByOnlyif ==
    /\ last.valid /\ PassesValidation
    /\ OnlyifFails /\ UnlessSucceeds
    /\ last.pre.kind = "repo"
    /\ last.pre.remotes[args.remote] # desired_fetch_url(args)
    /\ last.calls = <<"cmd.retcode">>
    /\ Skipped

\* the position of the first invocation of the operation in the run (0: none)
FirstOp(l, op) ==
    IF op \in OpsOf(l)
    THEN CHOOSE i \in DOMAIN l.ops :
            l.ops[i] = op /\ \A j \in 1..(i - 1) : l.ops[j] # op
    ELSE 0

\* C22: over a non-empty directory that is no git repository, a run without
\* force_clone returns False, removes nothing and does not clone; the target
\* is removed only by a real run with force_clone, before the clone, and the
\* removal is recorded as 'forced clone' in changes.
ForceCloneGuard ==
    last.valid =>
        /\ (last.pre.kind = "dir" /\ ~args.force_clone) =>
              /\ last.ret.result = "False"
              /\ "rm_rf" \notin OpsOf(last) /\ "clone" \notin OpsOf(last)
              /\ repo = last.pre
        /\ "rm_rf" \in OpsOf(last) =>
              /\ args.force_clone /\ ~last.test
              /\ CountOp(last, "rm_rf") = 1
              /\ "clone" \in OpsOf(last) =>
                    FirstOp(last, "rm_rf") < FirstOp(last, "clone")
              /\ HasChange(last.ret, <<"forced clone">>)
              /\ last.ret.changes[<<"forced clone">>] = TRUE
        /\ (last.pre.kind = "dir" /\ repo # last.pre) => "rm_rf" \in OpsOf(last)

\* a real run with force_clone removed a non-empty directory and cloned into
\* its place
ForcedCloneDone ==
    /\ RealRun /\ last.pre.kind = "dir" /\ args.force_clone
    /\ last.ret.result = "True"
    /\ FirstOp(last, "rm_rf") = 1 /\ FirstOp(last, "clone") = 2
    /\ HasChange(last.ret, <<"forced clone">>)
    /\ repo.kind \in {"repo", "bare"}

\* C23: the submodule update is invoked only with submodules=True, and only
\* by a run that clones the repository or changes the branch checked out or
\* the revision of HEAD; a run that finds the work tree at the wanted
\* revision and branch does not invoke it.
SubmoduleTrigger ==
    (last.valid /\ "submodule" \in OpsOf(last)) =>
        /\ args.submodules
        /\ \/ "clone" \in OpsOf(last)
           \/ repo.cur # last.pre.cur
           \/ HeadCommit(repo) # HeadCommit(last.pre)

\* the run invoked the operation and the operation succeeded (a failing
\* operation ends the run)
Applied(op) ==
    \E i \in DOMAIN last.ops :
        last.ops[i] = op /\ ~(i = Len(last.ops) /\ last.failed)

\* C24: in a real run every mutating operation that was applied has its entry
\* in the changes returned (clone: new; remote URL set: remotes/<remote>;
\* checkout or creation of a branch: local branch; tracking branch set or
\* unset: upstream; hard reset, merge or reset: forced update or revision),
\* after a clone as in an update, and changes has no entry for an operation
\* that was not applied.
ChangesExact ==
    (RealRun /\ ~last.raised) =>
        /\ Applied("clone") <=> HasChange(last.ret, NewKey)
        /\ Applied("remote_set") <=> HasChange(last.ret, RemotesKey(args))
        /\ Applied("checkout") <=> HasChange(last.ret, <<"local branch">>)
        /\ Applied("branch") <=> HasChange(last.ret, <<"upstream">>)
        /\ HasChange(last.ret, <<"forced update">>) => Applied("reset")
        /\ (HeadCommit(repo) # HeadCommit(last.pre)
               /\ (Applied("reset") \/ Applied("merge"))) =>
              \/ HasChange(last.ret, <<"revision">>)
              \/ HasChange(last.ret, <<"forced update">>)
        /\ HasChange(last.ret, <<"revision">>) =>
              HeadCommit(repo) # HeadCommit(last.pre) \/ repo.cur # last.pre.cur
                 \/ Applied("clone")

\* a run of config_unset, of config_set
UnsetRun == last.valid /\ args.fn = "config_unset"
SetRun == last.valid /\ args.fn = "config_set"

\* the values of key k that the run's name and value_regex select in cfg
\* (none when the name does not match k)
Selected(cfg, k) ==
    IF re_match(rstrip(lstrip(args.name, "^"), "$"), k)
    THEN Matching(cfg[k], args.value_regex)
    ELSE <<>>

\* C25: when a matched key has more than one matching value and all is not
\* set, config_unset returns False and invokes no unset operation, for no
\* key, and the configuration is as it was.
AmbiguousUnsetRefused ==
    (UnsetRun /\ ~args.all /\ \E k \in Keys : Len(Selected(last.pre, k)) > 1) =>
        /\ last.ret.result = "False"
        /\ last.ops = <<>>
        /\ config = last.pre

\* an expression that matches a key with two matching values and a key with
\* one is refused by a real run
AmbiguousRefused ==
    /\ UnsetRun /\ ~last.test /\ ~args.all /\ args.repo # None
    /\ Len(Selected(last.pre, KeyEmail)) = 2
    /\ Len(Selected(last.pre, KeyName)) = 1
    /\ last.ret.result = "False" /\ last.ops = <<>>
    /\ last.calls = <<"config_get_regexp">>

\* C26: a real config_unset whose key pattern matches a key, unambiguously or
\* with all set, and whose unset commands succeed and remove the matched
\* values, returns True with the comment 'Value(s) successfully unset' and
\* changes mapping each affected key to the values removed, also when a key
\* is removed entirely.
UnsetSucceeds ==
    (UnsetRun /\ ~last.test /\ args.repo # None
        /\ (\E k \in Keys : Selected(last.pre, k) # <<>>)
        /\ (args.all \/ \A k \in Keys : Len(Selected(last.pre, k)) <= 1)
        /\ ~last.failed
        /\ \A k \in Keys : Selected(config, k) = <<>>) =>
        /\ ~last.raised
        /\ last.ret.result = "True"
        /\ last.ret.comment = <<"Value(s) successfully unset">>
        /\ DOMAIN last.ret.changes = {k \in Keys : Selected(last.pre, k) # <<>>}
        /\ \A k \in DOMAIN last.ret.changes :
              last.ret.changes[k] = Selected(last.pre, k)

\* the list config_set is to give the key
Desired == IF args.multivar # None THEN args.multivar ELSE <<args.value>>

\* a run of config_set that has a desired list and passes the argument checks
SetRunValid ==
    /\ SetRun /\ args.repo # None
    /\ (args.value = None) # (args.multivar = None)

\* C27: config_set with the key's values equal to the desired list, in the
\* same order, returns True with no changes and invokes no write; with
\* another list (the same values in another order included) a real run
\* invokes the write exactly once, and fails when the values read back
\* differ from the desired list; after a real run that returned True a run
\* with the same arguments makes no change.
ConfigSetConverges ==
    SetRunValid =>
        /\ last.pre[args.name] = Desired =>
              /\ last.ret.result = "True" /\ last.ret.changes = <<>>
              /\ last.ops = <<>> /\ config = last.pre
        /\ last.pre[args.name] # Desired =>
              /\ last.ops = (IF last.test THEN <<>> ELSE <<"config_set">>)
              /\ last.test => config = last.pre
              /\ (~last.test /\ config[args.name] # Desired) =>
                    last.ret.result = "False"
        /\ (~last.test /\ last.ret.result = "True") =>
              LET r == config_set(args, FALSE, "none", config) IN
                 /\ r.ret.result = "True" /\ r.ret.changes = <<>>
                 /\ r.ops = <<>> /\ r.config = config

\* a real run rewrote a multivar that had the desired values in another order
ReorderedMultivar ==
    /\ SetRunValid /\ ~last.test
    /\ args.multivar = <<ValA, ValB>> /\ last.pre[args.name] = <<ValB, ValA>>
    /\ last.ops = <<"config_set">> /\ last.ret.result = "True"
    /\ config[args.name] = <<ValA, ValB>>
    /\ HasChange(last.ret, args.name)

\* C28: config_set with a single value on a key that has no value: the real
\* run returns True with changes {<key>: {old: None, new: [<value>]}}, and
\* the dry run predicts that same change record.
ConfigSetUnsetKey ==
    (SetRunValid /\ last.f = "none" /\ args.value # None
        /\ last.pre[args.name] = <<>>) =>
        /\ DOMAIN last.ret.changes = {args.name}
        /\ last.ret.changes[args.name] = [old |-> None, new |-> <<args.value>>]
        /\ last.ret.result = (IF last.test THEN "None" ELSE "True")

\* the snapshot advertises the ref
Advertised(ref) == ref \in DOMAIN last.refs

\* rev reads as a SHA1: hex digits, 40 at most
HexRev == Len(last.rev) <= MaxShaLen /\ \A i \in DOMAIN last.rev : last.rev[i] \in hexdigits

\* the resolution failed: latest returned 'No revision matching ...'
ResolutionFailed == last.done /\ last.ret.result = "False"

\* the resolution gave this revision, type and tracking target
ResolvedAs(remote_rev, type, upstream) ==
    /\ ~last.done
    /\ last.remote_rev = remote_rev
    /\ last.remote_rev_type = type
    /\ last.desired_upstream = upstream

\* what the precedence gives for a rev other than an advertised HEAD
ByPrecedence ==
    IF Advertised(<<"refs/heads/">> \o last.rev)
    THEN ResolvedAs(last.refs[<<"refs/heads/">> \o last.rev], "branch",
                    args.remote \o Slash \o last.rev)
    ELSE IF Advertised(<<"refs/tags/">> \o last.rev \o <<"^{}">>)
    THEN ResolvedAs(last.refs[<<"refs/tags/">> \o last.rev \o <<"^{}">>], "tag", FalseV)
    ELSE IF Advertised(<<"refs/tags/">> \o last.rev)
    THEN ResolvedAs(last.refs[<<"refs/tags/">> \o last.rev], "tag", FalseV)
    ELSE IF HexRev
    THEN ResolvedAs(lower(last.rev), "sha1", FalseV) /\ last.resolved = lower(last.rev)
    ELSE ResolutionFailed

\* C29 as stated: HEAD when asked for and advertised (no tracking target),
\* else the branch, else the peeled annotated tag, else the lightweight tag,
\* else the lower-cased SHA1 when rev is hex of at most 40 characters, else
\* failure.
RevPrecedenceOrFailure ==
    last.valid =>
        IF last.rev = HEAD /\ Advertised(HEAD)
        THEN ResolvedAs(last.refs[HEAD], "sha1", None)
        ELSE ByPrecedence

\* C29: rev HEAD resolves to the advertised HEAD with no tracking target, and
\* to no revision, without failure, when the remote advertises no HEAD; any
\* other rev resolves to the branch, else the peeled annotated tag, else the
\* lightweight tag, else the lower-cased SHA1 when rev is hex of at most 40
\* characters, else the run fails.  A name that is a branch and a tag
\* resolves as the branch; tags and SHA1s carry the tracking target False.
RevPrecedence ==
    last.valid =>
        IF last.rev = HEAD
        THEN IF Advertised(HEAD) THEN ResolvedAs(last.refs[HEAD], "sha1", None)
             ELSE ~last.done /\ last.remote_rev = None /\ last.remote_rev_type = "None"
        ELSE ByPrecedence

\* a name that reads as hex and is a branch, an annotated tag and a lightweight
\* tag of the remote resolved as the branch
BranchBeforeTag ==
    /\ last.valid /\ last.rev = <<"a", "1">>
    /\ Advertised(<<"refs/heads/">> \o last.rev)
    /\ Advertised(<<"refs/tags/">> \o last.rev \o <<"^{}">>)
    /\ Advertised(<<"refs/tags/">> \o last.rev)
    /\ last.remote_rev_type = "branch" /\ last.remote_rev = Sha(2)
    /\ last.desired_upstream = args.remote \o Slash \o last.rev

\* the positions of an operation in the calls of the last run, in call order
Positions(op) == {i \in DOMAIN last.trace : last.trace[i] = op}

\* a real run of latest over a work tree
UpdateRun ==
    last.valid /\ ~last.test /\ ~args.bare /\ last.pre.kind = "repo"

\* the place of each mutating operation in the order of the update; a reset is
\* the hard reset of a forced update (hard) or the reset that fast-forwards
StepRank(op, hard) ==
    CASE op = "remote_set" -> 1
      [] op = "fetch" -> 2
      [] op = "checkout" -> 3
      [] op = "reset" -> IF hard THEN 4 ELSE 6
      [] op = "branch" -> 5
      [] op = "merge" -> 6
      [] op = "submodule" -> 7
      [] OTHER -> 0

\* what the reset of the last run was: the run reports 'forced update' when
\* the hard reset went through; a reset that failed reports nothing
ResetKinds ==
    IF <<"forced update">> \in DOMAIN last.ret.changes THEN {TRUE}
    ELSE IF last.failed /\ last.ops # <<>> /\ last.ops[Len(last.ops)] = "reset"
    THEN {TRUE, FALSE}
    ELSE {FALSE}

\* C30: in a real run over an existing work tree the mutating operations
\* invoked are, in this order and each at most once: remote URL set, fetch,
\* checkout, hard reset, tracking-branch set or unset, fast-forward merge or
\* reset, submodule update; a fast-forward check made in a run that fetched
\* comes after the fetch and before the checkout and every later step.
UpdateOrder ==
    UpdateRun =>
        /\ \E hard \in ResetKinds :
             /\ \A i \in DOMAIN last.ops : StepRank(last.ops[i], hard) > 0
             /\ \A i, j \in DOMAIN last.ops :
                    i < j => StepRank(last.ops[i], hard) < StepRank(last.ops[j], hard)
        /\ Positions("fetch") # {} =>
             /\ Cardinality(Positions("merge_base")) <= 1
             /\ \A m \in Positions("merge_base") :
                  /\ \A i \in Positions("fetch") : i < m
                  /\ \A i \in Positions("checkout") \cup Positions("reset")
                            \cup Positions("branch") \cup Positions("merge")
                            \cup Positions("submodule") : m < i

\* a run that set the remote URL, fetched, checked the fast-forward again,
\* checked out the side branch, hard-reset it and updated the submodules
FullUpdate ==
    /\ UpdateRun
    /\ last.ops = <<"remote_set", "fetch", "checkout", "reset", "submodule">>
    /\ Positions("merge_base") # {}
    /\ <<"forced update">> \in DOMAIN last.ret.changes

\* the update of the last run was a fast-forward away from the base revision
FastForwardDue ==
    /\ WantedCommit # 0 /\ BaseCommit(last.pre) # 0
    /\ WantedCommit # BaseCommit(last.pre)
    /\ IsAncestor(BaseCommit(last.pre), WantedCommit)

\* C31: a real run over a work tree whose rev is HEAD or a branch of the
\* remote, and that was not a forced update, invokes no hard reset; when the
\* update is a fast-forward away from the base revision and the run succeeds,
\* it is applied by one fast-forward merge.  (HEAD is on a branch in every
\* work tree of the model.)
FastForwardByMerge ==
    (UpdateRun /\ ResolvedType \in {"head", "branch"}
       /\ <<"forced update">> \notin DOMAIN last.ret.changes) =>
        /\ CountOp(last, "reset") = 0
        /\ (FastForwardDue /\ last.ret.result = "True") => CountOp(last, "merge") = 1

\* rev as the last run resolved it against the remote's refs
ResolvedRev == ClassifyRev(Context(args, FALSE, "none", last.pre, remoteRepo))

\* the base revision the run started from equals the resolved remote revision
\* (_revs_equal: by prefix for a SHA1)
Tie ==
    /\ UpdateRun
    /\ BaseCommit(last.pre) # 0
    /\ ResolvedRev.remote_rev \notin {None, Unbound}
    /\ _revs_equal(Sha(BaseCommit(last.pre)), ResolvedRev.remote_rev,
                   ResolvedRev.remote_rev_type)

\* the run was refused as not being a fast-forward
RefusedAsDiverged ==
    /\ last.ret.result = "False"
    /\ last.ret.comment # <<>>
    /\ last.ret.comment[1] = "Repository would be updated from "

\* C32: a real run over a work tree whose base revision equals the resolved
\* remote revision (by prefix for a short SHA1) invokes neither merge nor
\* reset and is not treated as diverged: it is not refused as a
\* non-fast-forward and makes no forced update, with or without force_reset.
TieIsNoOp ==
    Tie =>
        /\ CountOp(last, "merge") = 0
        /\ CountOp(last, "reset") = 0
        /\ ~RefusedAsDiverged
        /\ <<"forced update">> \notin DOMAIN last.ret.changes

\* a real run over a work tree with rev a branch of the remote
BranchUpdateRun == UpdateRun /\ args.rev = BrM /\ remoteRepo.m # 0

\* the advertised commit of the branch is in the object store, the remote is
\* configured and the local ref <remote>/<rev> is at the advertised commit
PresentLocally ==
    /\ remoteRepo.m \in last.pre.objs
    /\ last.pre.remotes[args.remote] # NoUrl
    /\ last.pre.rtrack[args.remote][BrM] = remoteRepo.m

\* C33: in a real run over a work tree with rev a branch of the remote, when
\* the advertised commit is in the object store, the remote is configured and
\* <remote>/<rev> is at the advertised commit, no fetch is made; otherwise the
\* run fetches once, before every checkout, reset and merge.
PresenceCrossChecked ==
    BranchUpdateRun =>
        IF PresentLocally THEN CountOp(last, "fetch") = 0
        ELSE /\ CountOp(last, "fetch") = 1
             /\ \A i \in Positions("fetch"),
                   j \in Positions("checkout") \cup Positions("reset")
                         \cup Positions("merge") : i < j

\* the commit was in the object store and the remote configured, but
\* <remote>/<rev> pointed elsewhere: the run fetched, then moved the branch
StaleRefFetched ==
    /\ BranchUpdateRun
    /\ remoteRepo.m \in last.pre.objs
    /\ last.pre.remotes[args.remote] # NoUrl
    /\ last.pre.rtrack[args.remote][BrM] \notin {0, remoteRepo.m}
    /\ CountOp(last, "fetch") = 1
    /\ CountOp(last, "reset") + CountOp(last, "merge") + CountOp(last, "checkout") > 0

\* C34 as stated: a real run over a work tree that has to switch to the branch
\* asked for, with uncommitted changes and force_checkout unset, returns
\* failure and invokes no checkout, reset, merge or tracking-branch operation.
DirtyBlocksCheckoutAlways ==
    (UpdateRun /\ BlockedSwitch) =>
        /\ last.ret.result = "False"
        /\ CountOp(last, "checkout") = 0 /\ CountOp(last, "reset") = 0
        /\ CountOp(last, "merge") = 0 /\ CountOp(last, "branch") = 0

\* C34: a real run over a work tree that has to switch to the branch asked
\* for, with uncommitted changes and force_checkout unset, and for which the
\* remote has a revision for rev, returns failure and invokes no
\* checkout, reset, merge or tracking-branch operation.
DirtyBlocksCheckout ==
    (UpdateRun /\ BlockedSwitch /\ ResolvedRev.remote_rev \notin {None, Unbound}) =>
        /\ last.ret.result = "False"
        /\ CountOp(last, "checkout") = 0 /\ CountOp(last, "reset") = 0
        /\ CountOp(last, "merge") = 0 /\ CountOp(last, "branch") = 0

\* the run fetched, then stopped at the uncommitted changes
BlockedAfterFetch ==
    /\ UpdateRun /\ BlockedSwitch
    /\ last.ops = <<"fetch">>
    /\ last.ret.result = "False"
    /\ last.ret.comment[1] = "Local branch has uncommitted changes. Set 'force_checkout' to discard them and proceed."

\* a real run over a work tree that set the remote URL
UrlSetRun ==
    UpdateRun /\ CountOp(last, "remote_set") = 1 /\ last.f # "remote_set"

\* C35: when a real run has set the remote URL and then fails (a command
\* fails, the update turns out not to be a fast-forward, the checkout is
\* refused), the result is False, changes holds the 'remotes/<remote>' entry
\* and the remote still has the declared URL.
NoRollback ==
    (UrlSetRun /\ (last.failed \/ last.ret.result = "False")) =>
        /\ ~last.raised
        /\ last.ret.result = "False"
        /\ RemotesKey(args) \in DOMAIN last.ret.changes
        /\ repo.remotes[args.remote] = desired_fetch_url(args)
        /\ last.pre.remotes[args.remote] # desired_fetch_url(args)

\* the run set the remote URL and its fetch failed
UrlSetThenFetchFailed ==
    /\ UrlSetRun /\ last.f = "fetch"
    /\ last.ops = <<"remote_set", "fetch">>
    /\ last.failed /\ last.ret.result = "False"

\* rev as resolved against the refs the last run listed
ListedRev == ClassifyRev(Context(args, FALSE, "none", last.pre, last.listed))

\* C36: when a real run over a work tree returns True, HEAD is at the remote
\* revision that rev resolved to in the refs listed at the start of the run
\* (by prefix for a short SHA1), also when the remote's branch moved between
\* the listing and the fetch.
SuccessIsConvergence ==
    (UpdateRun /\ last.ret.result = "True") =>
        _revs_equal(revision(repo), ListedRev.remote_rev, ListedRev.remote_rev_type)

\* the remote's branch moved after the listing, the run fetched the newer
\* commit, moved HEAD to it, and failed instead of reporting success
MovedRemoteFails ==
    /\ UpdateRun /\ last.listed # remoteRepo
    /\ CountOp(last, "fetch") = 1
    /\ revision(repo) # ListedRev.remote_rev
    /\ revision(repo) # revision(last.pre)
    /\ last.ret.result = "False"

\* the comment of the last run begins with 'Repository <target> is up-to-date'
ReportsUpToDate ==
    /\ Len(last.ret.comment) >= Len(UpToDateComment)
    /\ SubSeq(last.ret.comment, 1, Len(UpToDateComment)) = UpToDateComment

\* C37: a real run that returns 'Repository <target> is up-to-date' has
\* invoked no mutating operation and reports no changes.
UpToDateMeansUntouched ==
    (RealRun /\ ReportsUpToDate) =>
        /\ last.ops = <<>>
        /\ last.ret.changes = <<>>

\* every commit reachable from a local branch before the last run is
\* reachable from that branch after it
HistoryKept ==
    \A b \in Branches :
        last.pre.heads[b] # 0 => IsAncestor(last.pre.heads[b], repo.heads[b])

\* C38: a real run without force_reset over a work tree leaves every commit
\* that was reachable from a local branch reachable from it: a hard reset is
\* invoked only towards a descendant of (or the same commit as) the tip of
\* the branch it resets.
NoHistoryDiscarded ==
    (UpdateRun /\ ~args.force_reset) => HistoryKept

\* a run with rev HEAD over a work tree while the remote advertises no HEAD
EmptyRemoteHeadRun ==
    /\ last.valid /\ ~args.bare /\ last.pre.kind = "repo"
    /\ args.rev = HEAD /\ last.listed.m = 0

\* C39: with rev HEAD against a remote that advertises no HEAD, a run over a
\* work tree invokes no mutating operation; it fails when the work tree has
\* a HEAD commit, and returns up-to-date with empty changes when it has no
\* commits.
EmptyRemoteHead ==
    EmptyRemoteHeadRun =>
        /\ last.ops = <<>> /\ repo = last.pre
        /\ IF HeadCommit(last.pre) # 0
           THEN last.ret.result = "False"
           ELSE /\ last.ret.result = "True"
                /\ ReportsUpToDate
                /\ last.ret.changes = <<>>

\* a real run with rev HEAD, the remote empty, over a work tree without
\* commits whose remote names another URL: nothing is set, nothing fetched
EmptyOntoEmpty ==
    /\ EmptyRemoteHeadRun /\ ~last.test
    /\ HeadCommit(last.pre) = 0
    /\ last.pre.remotes[args.remote] # desired_fetch_url(args)
    /\ last.ret.result = "True"

====
